---- MODULE Spec2Model ----
(***************************************************************************)
(* Slot-assignment engine of prep-appointments (src/schedule): the generic *)
(* day assigner, the eviction-chain search and applier, and the            *)
(* construction, research and troops specialisations.                      *)
(*                                                                         *)
(* One behaviour is one scheduling run on one candidate list: either the   *)
(* construction day followed by the research day (research reads the       *)
(* finished construction schedule), or the troops day.  Each iteration of  *)
(* an assignment loop is one step; applying an eviction chain is one step  *)
(* per move, so the states in the middle of a chain are visible.           *)
(*                                                                         *)
(* Display-only fields (name, alliance) are left out.  Player ids are      *)
(* numbers; the input order of the entries is the order of the sequence.   *)
(* Scores stay far below 2^32, so u32 arithmetic is exact.                 *)
(***************************************************************************)
EXTENDS Integers, Sequences, FiniteSets, TLC

\* ------------------------------------------------------------------ bounds
NumPlayers == 3
MaxSlot == 3
MaxScore == 2
MaxAvail == 2
ChainPlayers == 7
MaxMoves == 2
TimeGrain == 10

\* ------------------------------------------------------- program constants
MaxDepth == 5

\* ------------------------------------------------------------ small helpers
Range(s) == {s[i] : i \in DOMAIN s}

Min(S) == CHOOSE x \in S : \A y \in S : x <= y

Max(S) == CHOOSE x \in S : \A y \in S : x >= y

\* The ascending list of a set of numbers (parse_time_slots: collect, sort).
RECURSIVE SortedSeq(_)
SortedSeq(S) == IF S = {} THEN <<>> ELSE <<Min(S)>> \o SortedSeq(S \ {Min(S)})

\* The elements of s at the positions I, in order (what iter().filter()
\* keeps when I is the set of positions that pass the filter).
RECURSIVE SubSeqAt(_, _)
SubSeqAt(s, I) == IF I = {} THEN <<>> ELSE <<s[Min(I)]>> \o SubSeqAt(s, I \ {Min(I)})

\* s without its i-th element.
RemoveAt(s, i) == SubSeq(s, 1, i - 1) \o SubSeq(s, i + 1, Len(s))

\* Stable sort of s by the keys k (k[i] is the key of s[i]), greatest first:
\* the earliest element of greatest key, then the rest sorted.
RECURSIVE SortDescBy(_, _)
SortDescBy(s, k) ==
  IF s = <<>> THEN <<>>
  ELSE LET m == Min({i \in DOMAIN s : \A j \in DOMAIN s : k[j] <= k[i]})
       IN <<s[m]>> \o SortDescBy(RemoveAt(s, m), RemoveAt(k, m))

\* Stable sort of s by the keys k, smallest first.
RECURSIVE SortAscBy(_, _)
SortAscBy(s, k) ==
  IF s = <<>> THEN <<>>
  ELSE LET m == Min({i \in DOMAIN s : \A j \in DOMAIN s : k[j] >= k[i]})
       IN <<s[m]>> \o SortAscBy(RemoveAt(s, m), RemoveAt(k, m))

\* HashMap insert and remove on a function whose domain is the key set.
MapInsert(m, key, v) == [x \in DOMAIN m \cup {key} |-> IF x = key THEN v ELSE m[x]]

MapRemove(m, key) == [x \in DOMAIN m \ {key} |-> m[x]]

EmptyMap == [x \in {} |-> 0]

\* ------------------------------------------------------------------- types
ScheduledAppointment(pid, s, score) == [player_id |-> pid, slot |-> s, priority_score |-> score]

Move(pid, from, to) == [player_id |-> pid, from_slot |-> from, to_slot |-> to]

DaySchedule(appts, un) == [appointments |-> appts, unassigned |-> un]

None == [some |-> FALSE, chain |-> <<>>]

Some(c) == [some |-> TRUE, chain |-> c]

\* ------------------------------------------------------ per-day accessors
wants_filter(day, e) ==
  CASE day = "construction" -> e.wants_construction
    [] day = "research" -> e.wants_research
    [] OTHER -> e.wants_troops

get_available_slots(day, e) ==
  CASE day = "construction" -> e.construction_available_slots
    [] day = "research" -> e.research_available_slots
    [] OTHER -> e.troops_available_slots

get_priority_score(day, e) ==
  CASE day = "construction" -> e.construction_score
    [] day = "research" -> e.research_score
    [] OTHER -> e.troops_speedups

\* -------------------------------------------------------------- time slots
\* A time string "HH:MM" is the pair <<hours, minutes>> of its two numbers.
\* parse_time_to_minutes: <<>> for None, <<minutes>> for Some(minutes).
parse_time_to_minutes(time_str) ==
  IF time_str[1] >= 24 \/ time_str[2] >= 60 THEN <<>>
  ELSE <<time_str[1] * 60 + time_str[2]>>

minutes_to_time_string(minutes) == <<(minutes \div 60) % 24, minutes % 60>>

\* The loop of calculate_time_slots for slot 3 and beyond (lines 67-98).
\* The iteration that considers slot number n has added 30 minutes to
\* current_minutes n - 2 times; the loop ends at the first n whose time has
\* reached the end, or at the safety limit of 200 slots.
TimeSlotLoop(slots, current_minutes, start_minutes, end_minutes) ==
  LET Current(n) == current_minutes + 30 * (n - 2)
      check_minutes(n) ==
        IF end_minutes < start_minutes /\ Current(n) >= 24 * 60
        THEN Current(n) % (24 * 60) ELSE Current(n)
      reached(n) ==
        IF end_minutes < start_minutes
        THEN check_minutes(n) >= end_minutes /\ check_minutes(n) < start_minutes
        ELSE check_minutes(n) >= end_minutes
      last == Min({n \in 3..201 : n > 200 \/ reached(n)})
  IN slots \o [k \in 1..(last - 3) |->
                 <<k + 2, minutes_to_time_string(check_minutes(k + 2) % (24 * 60))>>]

calculate_time_slots(start, end) ==
  LET start_minutes == IF parse_time_to_minutes(start) = <<>> THEN 0
                       ELSE parse_time_to_minutes(start)[1]
      end_minutes == IF end = <<>> \/ parse_time_to_minutes(end[1]) = <<>>
                     THEN start_minutes + 24 * 60
                     ELSE parse_time_to_minutes(end[1])[1]
      first == <<<<1, minutes_to_time_string(start_minutes)>>>>
      current_minutes == start_minutes + 15
  IN IF \/ current_minutes < end_minutes
        \/ end_minutes < start_minutes /\ current_minutes < end_minutes + 24 * 60
     THEN TimeSlotLoop(
            Append(first, <<2, minutes_to_time_string(current_minutes % (24 * 60))>>),
            current_minutes, start_minutes, end_minutes)
     ELSE first

\* ------------------------------------------------------ popularity ranking
\* A faulty variant: only the first slot of each list is counted.
calculate_slot_rankings_first_listed(available_slots_list, slot) ==
  Cardinality({i \in DOMAIN available_slots_list :
                 available_slots_list[i] # <<>> /\ available_slots_list[i][1] = slot})

\* calculate_slot_rankings: one count per occurrence of the slot in a list.
calculate_slot_rankings(available_slots_list, slot) ==
  Cardinality(UNION {{<<i, j>> : j \in {j \in DOMAIN available_slots_list[i] :
                                          available_slots_list[i][j] = slot}} :
                     i \in DOMAIN available_slots_list})

\* ---------------------------------------------------- eviction-chain search
\* The visited set is passed by value: a failed recursive call has removed
\* every id it inserted, so each later branch sees the caller's set plus the
\* one occupant inserted for that branch.
\* Faulty variants of the search, each leaving out one of its checks: the
\* depth bound ("depth"), the locked-slot checks ("locked"), the visited set
\* ("visited"), taking a slot for free as soon as nobody sits in it
\* ("free"), putting the caller's move after the sub-chain ("append"), or
\* giving up one level early ("shallow").
\* They show which property rests on which check.
RECURSIVE FaultyChain(_, _, _, _, _, _, _, _, _, _, _, _)
FaultyChain(fault, player_id, current_slot, available_slots, schedule, used_slots, entry_map, day, depth, max_depth, visited, locked_slots) ==
  IF fault # "depth" /\ depth > max_depth THEN None
  ELSE IF fault = "shallow" /\ depth >= max_depth THEN None
  ELSE IF fault # "locked" /\ current_slot \in locked_slots THEN None
  ELSE
    LET free == {i \in DOMAIN available_slots :
                   /\ available_slots[i] # current_slot
                   /\ IF fault = "free" THEN available_slots[i] \notin DOMAIN schedule
                      ELSE available_slots[i] \notin used_slots}
    IN IF free # {}
       THEN Some(<<Move(player_id, current_slot, available_slots[Min(free)])>>)
       ELSE
         LET others == SelectSeq(available_slots, LAMBDA s : s # current_slot)
             slot_priorities ==
               SortDescBy(others, [i \in DOMAIN others |->
                                     IF others[i] \in DOMAIN schedule THEN 1 ELSE 0])
             Branch(i) ==
               LET target_slot == slot_priorities[i]
               IN IF target_slot \notin DOMAIN schedule THEN None
                  ELSE LET blocking_player_id == schedule[target_slot].player_id
                       IN IF fault # "locked" /\ target_slot \in locked_slots THEN None
                          ELSE IF fault # "visited" /\ blocking_player_id \in visited THEN None
                          ELSE IF blocking_player_id \notin DOMAIN entry_map THEN None
                          ELSE FaultyChain(
                                 fault, blocking_player_id, target_slot,
                                 get_available_slots(day, entry_map[blocking_player_id]),
                                 schedule, used_slots, entry_map, day,
                                 depth + 1, max_depth,
                                 visited \cup {blocking_player_id}, locked_slots)
             found == {i \in DOMAIN slot_priorities : Branch(i).some}
         IN IF found = {} THEN None
            ELSE IF fault = "append"
            THEN Some(Branch(Min(found)).chain
                      \o <<Move(player_id, current_slot, slot_priorities[Min(found)])>>)
            ELSE Some(<<Move(player_id, current_slot, slot_priorities[Min(found)])>>
                      \o Branch(Min(found)).chain)

find_move_chain_appending(player_id, current_slot, available_slots, schedule, used_slots, entry_map, day, depth, max_depth, visited, locked_slots) ==
  FaultyChain("append", player_id, current_slot, available_slots, schedule, used_slots,
              entry_map, day, depth, max_depth, visited, locked_slots)

find_move_chain_shallow(player_id, current_slot, available_slots, schedule, used_slots, entry_map, day, depth, max_depth, visited, locked_slots) ==
  FaultyChain("shallow", player_id, current_slot, available_slots, schedule, used_slots,
              entry_map, day, depth, max_depth, visited, locked_slots)

find_move_chain_unbounded(player_id, current_slot, available_slots, schedule, used_slots, entry_map, day, depth, max_depth, visited, locked_slots) ==
  FaultyChain("depth", player_id, current_slot, available_slots, schedule, used_slots,
              entry_map, day, depth, max_depth, visited, locked_slots)

find_move_chain_unlocked(player_id, current_slot, available_slots, schedule, used_slots, entry_map, day, depth, max_depth, visited, locked_slots) ==
  FaultyChain("locked", player_id, current_slot, available_slots, schedule, used_slots,
              entry_map, day, depth, max_depth, visited, locked_slots)

find_move_chain_revisiting(player_id, current_slot, available_slots, schedule, used_slots, entry_map, day, depth, max_depth, visited, locked_slots) ==
  FaultyChain("visited", player_id, current_slot, available_slots, schedule, used_slots,
              entry_map, day, depth, max_depth, visited, locked_slots)

find_move_chain_unoccupied(player_id, current_slot, available_slots, schedule, used_slots, entry_map, day, depth, max_depth, visited, locked_slots) ==
  FaultyChain("free", player_id, current_slot, available_slots, schedule, used_slots,
              entry_map, day, depth, max_depth, visited, locked_slots)

RECURSIVE find_move_chain(_, _, _, _, _, _, _, _, _, _, _)
find_move_chain(player_id, current_slot, available_slots, schedule, used_slots, entry_map, day, depth, max_depth, visited, locked_slots) ==
  IF depth > max_depth THEN None
  ELSE IF current_slot \in locked_slots THEN None
  ELSE
    LET free == {i \in DOMAIN available_slots :
                   available_slots[i] # current_slot /\ available_slots[i] \notin used_slots}
    IN IF free # {}
       THEN Some(<<Move(player_id, current_slot, available_slots[Min(free)])>>)
       ELSE
         LET others == SelectSeq(available_slots, LAMBDA s : s # current_slot)
             slot_priorities ==
               SortDescBy(others, [i \in DOMAIN others |->
                                     IF others[i] \in DOMAIN schedule THEN 1 ELSE 0])
             Branch(i) ==
               LET target_slot == slot_priorities[i]
               IN IF target_slot \notin DOMAIN schedule THEN None
                  ELSE LET blocking_player_id == schedule[target_slot].player_id
                       IN IF target_slot \in locked_slots THEN None
                          ELSE IF blocking_player_id \in visited THEN None
                          ELSE IF blocking_player_id \notin DOMAIN entry_map THEN None
                          ELSE find_move_chain(
                                 blocking_player_id, target_slot,
                                 get_available_slots(day, entry_map[blocking_player_id]),
                                 schedule, used_slots, entry_map, day,
                                 depth + 1, max_depth,
                                 visited \cup {blocking_player_id}, locked_slots)
             found == {i \in DOMAIN slot_priorities : Branch(i).some}
         IN IF found = {} THEN None
            ELSE Some(<<Move(player_id, current_slot, slot_priorities[Min(found)])>>
                      \o Branch(Min(found)).chain)

\* The depth the search recurses to: the greatest depth argument of the
\* calls of find_move_chain, made for the given call in the order of the
\* code, that get past the depth check of lines 20-22 (0: none does).  The
\* branches are tried in the order of slot_priorities up to the first one
\* that returns a chain.
\* A faulty variant ("depth") has no depth check.
RECURSIVE FaultyDepth(_, _, _, _, _, _, _, _, _, _, _, _)
FaultyDepth(fault, player_id, current_slot, available_slots, schedule, used_slots, entry_map, day, depth, max_depth, visited, locked_slots) ==
  IF fault # "depth" /\ depth > max_depth THEN 0
  ELSE IF current_slot \in locked_slots THEN depth
  ELSE IF \E i \in DOMAIN available_slots :
            available_slots[i] # current_slot /\ available_slots[i] \notin used_slots
  THEN depth
  ELSE
    LET others == SelectSeq(available_slots, LAMBDA s : s # current_slot)
        slot_priorities ==
          SortDescBy(others, [i \in DOMAIN others |->
                                IF others[i] \in DOMAIN schedule THEN 1 ELSE 0])
        Entered(i) ==
          /\ slot_priorities[i] \in DOMAIN schedule
          /\ slot_priorities[i] \notin locked_slots
          /\ schedule[slot_priorities[i]].player_id \notin visited
          /\ schedule[slot_priorities[i]].player_id \in DOMAIN entry_map
        Returned(i) ==
          LET blocking_player_id == schedule[slot_priorities[i]].player_id
          IN IF fault = "depth"
             THEN find_move_chain_unbounded(
                    blocking_player_id, slot_priorities[i],
                    get_available_slots(day, entry_map[blocking_player_id]),
                    schedule, used_slots, entry_map, day, depth + 1, max_depth,
                    visited \cup {blocking_player_id}, locked_slots)
             ELSE find_move_chain(
                    blocking_player_id, slot_priorities[i],
                    get_available_slots(day, entry_map[blocking_player_id]),
                    schedule, used_slots, entry_map, day, depth + 1, max_depth,
                    visited \cup {blocking_player_id}, locked_slots)
        found == {i \in DOMAIN slot_priorities : Entered(i) /\ Returned(i).some}
        tried == {i \in DOMAIN slot_priorities :
                    Entered(i) /\ \A j \in found : i <= j}
    IN Max({depth} \cup
           {FaultyDepth(fault, schedule[slot_priorities[i]].player_id, slot_priorities[i],
                        get_available_slots(day, entry_map[schedule[slot_priorities[i]].player_id]),
                        schedule, used_slots, entry_map, day, depth + 1, max_depth,
                        visited \cup {schedule[slot_priorities[i]].player_id},
                        locked_slots) : i \in tried})

RecursionDepth_unbounded(player_id, current_slot, available_slots, schedule, used_slots, entry_map, day, depth, max_depth, visited, locked_slots) ==
  FaultyDepth("depth", player_id, current_slot, available_slots, schedule, used_slots,
              entry_map, day, depth, max_depth, visited, locked_slots)

RecursionDepth(player_id, current_slot, available_slots, schedule, used_slots, entry_map, day, depth, max_depth, visited, locked_slots) ==
  FaultyDepth("", player_id, current_slot, available_slots, schedule, used_slots,
              entry_map, day, depth, max_depth, visited, locked_slots)

\* ------------------------------------------------------------ chain applier
\* One iteration of the loop of apply_move_chain: the effect of one move on
\* the pair (schedule, used_slots).
\* A faulty variant: the appointment is copied to the target slot and
\* the source slot keeps it.
apply_move_keeps_source(mv, schedule, used_slots) ==
  IF mv.from_slot \in DOMAIN schedule /\ schedule[mv.from_slot].player_id = mv.player_id
  THEN [schedule |-> MapInsert(schedule, mv.to_slot,
                               [schedule[mv.from_slot] EXCEPT !.slot = mv.to_slot]),
        used_slots |-> used_slots \cup {mv.to_slot}, warning |-> <<>>]
  ELSE [schedule |-> schedule, used_slots |-> used_slots, warning |-> <<>>]

\* A faulty variant: the occupant who is not the move's player is taken out
\* of the schedule and not put back.
apply_move_drops_occupant(mv, schedule, used_slots) ==
  IF mv.from_slot \in DOMAIN schedule
  THEN LET appt == schedule[mv.from_slot]
           removed == MapRemove(schedule, mv.from_slot)
       IN IF appt.player_id = mv.player_id
          THEN [schedule |-> MapInsert(removed, mv.to_slot, [appt EXCEPT !.slot = mv.to_slot]),
                used_slots |-> (used_slots \ {mv.from_slot}) \cup {mv.to_slot},
                warning |-> <<>>]
          ELSE [schedule |-> removed, used_slots |-> used_slots,
                warning |-> <<mv.from_slot>>]
  ELSE [schedule |-> schedule, used_slots |-> used_slots, warning |-> <<>>]

\* A faulty variant: the appointment moves and the used-slot set is left
\* as it was.
apply_move_stale_used(mv, schedule, used_slots) ==
  IF mv.from_slot \in DOMAIN schedule /\ schedule[mv.from_slot].player_id = mv.player_id
  THEN [schedule |-> MapInsert(MapRemove(schedule, mv.from_slot), mv.to_slot,
                               [schedule[mv.from_slot] EXCEPT !.slot = mv.to_slot]),
        used_slots |-> used_slots, warning |-> <<>>]
  ELSE [schedule |-> schedule, used_slots |-> used_slots, warning |-> <<>>]

\* warning holds the slot named by the diagnostic, if one is emitted.
apply_move(mv, schedule, used_slots) ==
  IF mv.from_slot \in DOMAIN schedule
  THEN LET appt == schedule[mv.from_slot]
           removed == MapRemove(schedule, mv.from_slot)
       IN IF appt.player_id = mv.player_id
          THEN [schedule |-> MapInsert(removed, mv.to_slot, [appt EXCEPT !.slot = mv.to_slot]),
                used_slots |-> (used_slots \ {mv.from_slot}) \cup {mv.to_slot},
                warning |-> <<>>]
          ELSE [schedule |-> MapInsert(removed, mv.from_slot, appt),
                used_slots |-> used_slots,
                warning |-> <<mv.from_slot>>]
  ELSE [schedule |-> schedule, used_slots |-> used_slots, warning |-> <<>>]

\* ---------------------------------------------------------------- state
VARIABLES
  entries,         \* the candidate list handed to the schedulers (input order)
  pre_locked,      \* day -> pre_locked_slots argument of that day's scheduler
  existing,        \* day -> appointments of the schedule a run is appended to
  day,             \* the scheduler that is running ("done" after the last one)
  pc,              \* position inside it: "start", "loop", "apply", "assign"
  candidates,      \* candidates the loop has still to process (references
                   \* to entries: positions in the entry list)
  entry_map,       \* player_id -> reference to the entry, for this run
  slot_rankings,   \* slot -> popularity, for the slots somebody lists
  last_slot,       \* construction: the day's maximum slot (0 on other days)
  locked_slots,    \* slots whose occupant may not be moved
  schedule,        \* slot -> ScheduledAppointment (the working HashMap)
  used_slots,      \* the working used-slot set
  unassigned,      \* player ids that could not be placed, in order
  entry,           \* reference to the candidate whose steal is in progress
  requested_slot,  \* the slot that steal is freeing (0: none)
  move_chain,      \* moves of the found chain not yet applied
  forced,          \* research: the outer map holding the forced slot-1 seat
  result,          \* day -> DaySchedule returned by that day's scheduler
  merged,          \* day -> DaySchedule after the merge with the existing one
  warnings,        \* the slots named by the diagnostics of apply_move_chain
  submissions,     \* the form's submission file: the entries submitted so far
  schedules,       \* state.schedules at the account's key: <<>> or <<ScheduleData>>
  requests,        \* request -> position and locals of a generate_schedule_api call
  start_time,      \* a day's configured start time, <<hours, minutes>>
  end_time,        \* its configured end time: <<>> or <<<<hours, minutes>>>>
  time_slots       \* the (slot, time) list calculate_time_slots returned

vars == <<entries, pre_locked, existing, day, pc, candidates, entry_map, slot_rankings,
          last_slot, locked_slots, schedule, used_slots, unassigned, entry,
          requested_slot, move_chain, forced, result, merged, warnings,
          submissions, schedules, requests, start_time, end_time, time_slots>>

inputs == <<entries, pre_locked, existing>>

web == <<submissions, schedules, requests>>

config == <<start_time, end_time, time_slots>>

working == <<schedule, used_slots, unassigned>>

steal == <<entry, requested_slot, move_chain>>

\* ------------------------------------------------------------------ inputs
Entry(pid, c, r, t) ==
  [player_id |-> pid,
   wants_construction |-> c.wants, construction_score |-> c.score,
   construction_available_slots |-> c.avail,
   wants_research |-> r.wants, research_score |-> r.score,
   research_available_slots |-> r.avail,
   wants_troops |-> t.wants, troops_speedups |-> t.score,
   troops_available_slots |-> t.avail]

DayForm(w, sc, av) == [wants |-> w, score |-> sc, avail |-> av]

\* A day the player did not ask for and listed no times for.
Absent == DayForm(FALSE, 0, <<>>)

SlotLists == {SortedSeq(S) : S \in {T \in SUBSET (1..MaxSlot) : T # {} /\ Cardinality(T) <= MaxAvail}}

\* What one player can submit for one day: a wanted day with times, a wanted
\* day with no recognised time, an unwanted day with times, or nothing.
DayForms ==
  {DayForm(TRUE, sc, av) : sc \in 1..MaxScore, av \in SlotLists}
    \cup {DayForm(TRUE, 1, <<>>), DayForm(FALSE, 1, <<1>>)}

\* Construction-and-research submissions: players who want construction
\* only, players who want both and list the top construction slot and
\* research slot 1 (the cross-day link), and players who want neither.
LinkLists == {<<1>>, <<MaxSlot>>, <<1, MaxSlot>>, <<MaxSlot - 1, MaxSlot>>}

LinkForms ==
  {<<DayForm(TRUE, sc, av), Absent>> : sc \in 1..MaxScore, av \in LinkLists}
    \cup {<<DayForm(TRUE, sc, av), DayForm(TRUE, rs, <<1, 2>>)>> :
            sc \in 1..MaxScore, rs \in 1..MaxScore,
            av \in {<<MaxSlot>>, <<MaxSlot - 1, MaxSlot>>}}
    \cup {<<Absent, Absent>>}

\* The two worked examples of the specification, section 8 (players A and B
\* are 1 and 2; players F and E are 1 and 2).
ExampleA == <<Entry(1, Absent, Absent, DayForm(TRUE, 100, <<1, 5>>)),
              Entry(2, Absent, Absent, DayForm(TRUE, 50, <<5>>))>>

ExampleB == <<Entry(1, Absent, Absent, DayForm(TRUE, 99, <<2, 9>>)),
              Entry(2, Absent, Absent, DayForm(TRUE, 10, <<9>>))>>

\* ------------------------------------------------ generic assigner, set-up
\* generic.rs lines 32-60 for the given entries.
\* A reference to an entry is its position in the entry list es; refs is a
\* list of references.
Refs(es) == [i \in DOMAIN es |-> i]

\* A faulty variant: the entries that want the day, whatever they list.
GenericCandidates_unfiltered(d, es, refs) ==
  SubSeqAt(refs, {i \in DOMAIN refs : wants_filter(d, es[refs[i]])})

GenericCandidates(d, es, refs) ==
  SubSeqAt(refs, {i \in DOMAIN refs :
                    wants_filter(d, es[refs[i]]) /\ get_available_slots(d, es[refs[i]]) # <<>>})

\* A faulty variant: the lowest score first.
SortedCandidates_ascending(d, es, cs) ==
  SortAscBy(cs, [i \in DOMAIN cs |-> get_priority_score(d, es[cs[i]])])

\* A faulty variant: the candidates in input order.
SortedCandidates_unsorted(d, es, cs) == cs

SortedCandidates(d, es, cs) ==
  SortDescBy(cs, [i \in DOMAIN cs |-> get_priority_score(d, es[cs[i]])])

\* Collecting (player_id, entry) pairs into a HashMap: the last pair wins.
EntryMap(es, cs) ==
  [pid \in {es[cs[i]].player_id : i \in DOMAIN cs} |->
     cs[Max({i \in DOMAIN cs : es[cs[i]].player_id = pid})]]

\* The map the code reads through: player_id -> entry.
Deref(es, emap) == [pid \in DOMAIN emap |-> es[emap[pid]]]

Rankings(d, es, cs) ==
  LET lists == [i \in DOMAIN cs |-> get_available_slots(d, es[cs[i]])]
  IN [s \in UNION {Range(lists[i]) : i \in DOMAIN lists} |-> calculate_slot_rankings(lists, s)]

\* A faulty variant: the availability list as the candidate gave it.
RankedSlots_as_listed(available_slots, rankings) == available_slots

\* ranked_slots of one candidate: the availability list, most popular first.
RankedSlots(available_slots, rankings) ==
  SortDescBy(available_slots,
             [i \in DOMAIN available_slots |->
                IF available_slots[i] \in DOMAIN rankings THEN rankings[available_slots[i]] ELSE 0])

\* ---------------------------------------------- generic assigner, one entry
\* The outcome of one iteration of the loop of
\* schedule_day_generic_with_locked_slots for candidate e: a free slot, a
\* chain to apply, or neither.
\* Faulty variants of the iteration: a candidate with a single listed slot
\* never steals ("own_alternates"), only occupants with a priority score
\* below the candidate's can be evicted ("score_gate"), the occupants
\* are tried from the highest score down ("descending"), or the candidate
\* is offered every slot of the day ("every_slot").
FaultyOutcome(fault, d, e, sched, used, emap, rankings, locked) ==
  LET ranked_slots == IF fault = "every_slot" THEN SortedSeq(1..MaxSlot)
                      ELSE RankedSlots(get_available_slots(d, e), rankings)
      free == {i \in DOMAIN ranked_slots : ranked_slots[i] \notin used}
      occupied == SelectSeq(ranked_slots, LAMBDA s : s \in DOMAIN sched)
      scores == [i \in DOMAIN occupied |-> sched[occupied[i]].priority_score]
      blocking_players ==
        IF fault = "descending" THEN SortDescBy(occupied, scores) ELSE SortAscBy(occupied, scores)
      Chain(i) ==
        LET slot == blocking_players[i]
            pid == sched[slot].player_id
        IN IF pid \notin DOMAIN emap THEN None
           ELSE IF fault = "own_alternates" /\ Len(ranked_slots) = 1 THEN None
           ELSE IF fault = "score_gate" /\ sched[slot].priority_score >= get_priority_score(d, e)
           THEN None
           ELSE find_move_chain(pid, slot, get_available_slots(d, emap[pid]), sched, used,
                                emap, d, 1, MaxDepth, {pid}, locked)
      found == {i \in DOMAIN blocking_players : Chain(i).some}
  IN IF free # {}
     THEN [kind |-> "free", slot |-> ranked_slots[Min(free)], chain |-> <<>>]
     ELSE IF found # {}
     THEN [kind |-> "steal", slot |-> blocking_players[Min(found)], chain |-> Chain(Min(found)).chain]
     ELSE [kind |-> "none", slot |-> 0, chain |-> <<>>]

GenericOutcome_every_slot(d, e, sched, used, emap, rankings, locked) ==
  FaultyOutcome("every_slot", d, e, sched, used, emap, rankings, locked)

GenericOutcome_own_alternates(d, e, sched, used, emap, rankings, locked) ==
  FaultyOutcome("own_alternates", d, e, sched, used, emap, rankings, locked)

GenericOutcome_score_gate(d, e, sched, used, emap, rankings, locked) ==
  FaultyOutcome("score_gate", d, e, sched, used, emap, rankings, locked)

GenericOutcome_descending(d, e, sched, used, emap, rankings, locked) ==
  FaultyOutcome("descending", d, e, sched, used, emap, rankings, locked)

GenericOutcome(d, e, sched, used, emap, rankings, locked) ==
  LET ranked_slots == RankedSlots(get_available_slots(d, e), rankings)
      free == {i \in DOMAIN ranked_slots : ranked_slots[i] \notin used}
      occupied == SelectSeq(ranked_slots, LAMBDA s : s \in DOMAIN sched)
      blocking_players ==
        SortAscBy(occupied, [i \in DOMAIN occupied |-> sched[occupied[i]].priority_score])
      Chain(i) ==
        LET slot == blocking_players[i]
            pid == sched[slot].player_id
        IN IF pid \notin DOMAIN emap THEN None
           ELSE find_move_chain(pid, slot, get_available_slots(d, emap[pid]), sched, used,
                                emap, d, 1, MaxDepth, {pid}, locked)
      found == {i \in DOMAIN blocking_players : Chain(i).some}
  IN IF free # {}
     THEN [kind |-> "free", slot |-> ranked_slots[Min(free)], chain |-> <<>>]
     ELSE IF found # {}
     THEN [kind |-> "steal", slot |-> blocking_players[Min(found)], chain |-> Chain(Min(found)).chain]
     ELSE [kind |-> "none", slot |-> 0, chain |-> <<>>]

\* ------------------------------------------------- construction, one entry
\* The comparator of the blocking-player sort: "cmp(a, b) = Less".  A pair
\* with the day's last slot in it is compared by combined score, any other
\* pair by priority score.
BlockingLess(a, b, last) ==
  IF a.slot = last \/ b.slot = last
  THEN a.combined_score < b.combined_score
  ELSE a.priority_score < b.priority_score

\* The stable sort of the blocking tuples under that comparator.
SortBlocking(s, last) ==
  LET pos(i) == 1 + Cardinality({j \in DOMAIN s :
                       \/ BlockingLess(s[j], s[i], last)
                       \/ (/\ ~BlockingLess(s[i], s[j], last)
                           /\ ~BlockingLess(s[j], s[i], last)
                           /\ j < i)})
  IN [p \in DOMAIN s |-> s[CHOOSE i \in DOMAIN s : pos(i) = p]]

\* A faulty variant: the research score is left out.
CombinedScore_construction_only(e) == e.construction_score

\* Construction score, plus the research score of a player who wants
\* research and lists research slot 1.
CombinedScore(e) ==
  IF e.wants_research /\ 1 \in Range(e.research_available_slots)
  THEN e.construction_score + e.research_score
  ELSE e.construction_score

\* The outcome of one iteration of the loop of
\* schedule_construction_day_with_locked for candidate e.
ConstructionOutcome(e, sched, used, emap, rankings, last) ==
  LET ranked_slots == RankedSlots(e.construction_available_slots, rankings)
      free == {i \in DOMAIN ranked_slots : ranked_slots[i] \notin used}
      occupied == SelectSeq(ranked_slots,
                            LAMBDA s : s \in DOMAIN sched /\ sched[s].player_id \in DOMAIN emap)
      tuples == [i \in DOMAIN occupied |->
                   LET appt == sched[occupied[i]]
                   IN [slot |-> occupied[i], player_id |-> appt.player_id,
                       priority_score |-> appt.priority_score,
                       combined_score |-> IF occupied[i] = last
                                          THEN CombinedScore(emap[appt.player_id])
                                          ELSE appt.priority_score]]
      blocking_players == SortBlocking(tuples, last)
      Chain(i) ==
        LET slot == blocking_players[i].slot
            pid == sched[slot].player_id
        IN IF slot = last /\ CombinedScore(e) <= CombinedScore(emap[pid]) THEN None
           ELSE find_move_chain(pid, slot, emap[pid].construction_available_slots, sched, used,
                                emap, "construction", 1, MaxDepth, {pid}, {})
      found == {i \in DOMAIN blocking_players : Chain(i).some}
  IN IF free # {}
     THEN [kind |-> "free", slot |-> ranked_slots[Min(free)], chain |-> <<>>]
     ELSE IF found # {}
     THEN [kind |-> "steal", slot |-> blocking_players[Min(found)].slot,
           chain |-> Chain(Min(found)).chain]
     ELSE [kind |-> "none", slot |-> 0, chain |-> <<>>]

\* ------------------------------------------------------------------- Init
PreLockedSets == {{}, {1}, {MaxSlot}}

NoPreLocked == [d \in {"construction", "research", "troops"} |-> {}]

TroopsInput(f) == [i \in 1..NumPlayers |-> Entry(i, Absent, Absent, f[i])]

LinkInput(f) == [i \in 1..NumPlayers |-> Entry(i, f[i][1], f[i][2], Absent)]

LinkPreLocked ==
  {NoPreLocked,
   [NoPreLocked EXCEPT !["construction"] = {MaxSlot}],
   [NoPreLocked EXCEPT !["research"] = {1}]}

\* The schedule a run is appended to, whose slots generate_schedule_api
\* passes as the pre-locked sets: each slot is held by a player of an
\* earlier run, who is no longer among the entries (the filter on
\* scheduled_player_ids).
ExistingSchedule(pre) ==
  [d \in DOMAIN pre |-> [s \in pre[d] |-> ScheduledAppointment(NumPlayers + s, s, 1)]]

Init ==
  /\ \/ /\ day = "troops"
        /\ \E f \in [1..NumPlayers -> DayForms] : entries = TroopsInput(f)
        /\ \E pl \in PreLockedSets : pre_locked = [NoPreLocked EXCEPT !["troops"] = pl]
     \/ /\ day = "troops"
        /\ entries \in {ExampleA, ExampleB}
        /\ pre_locked = NoPreLocked
     \/ /\ day = "construction"
        /\ \E f \in [1..NumPlayers -> LinkForms] : entries = LinkInput(f)
        /\ pre_locked \in LinkPreLocked
  /\ existing = ExistingSchedule(pre_locked)
  /\ merged = EmptyMap
  /\ warnings = <<>>
  /\ submissions = <<>> /\ schedules = <<>> /\ requests = EmptyMap
  /\ start_time = <<0, 0>> /\ end_time = <<>> /\ time_slots = <<>>
  /\ pc = "start"
  /\ candidates = <<>>
  /\ entry_map = EmptyMap
  /\ slot_rankings = EmptyMap
  /\ last_slot = 0
  /\ locked_slots = {}
  /\ schedule = EmptyMap
  /\ used_slots = {}
  /\ unassigned = <<>>
  /\ entry = <<>>
  /\ requested_slot = 0
  /\ move_chain = <<>>
  /\ forced = EmptyMap
  /\ result = EmptyMap

\* ---------------------------------------------------------------- actions
\* Lines 32-60 of schedule_day_generic_with_locked_slots on the entries es.
GenericSetup(d, refs, pre, locked) ==
  \E cs \in {GenericCandidates(d, entries, refs)} :
     /\ candidates' = SortedCandidates(d, entries, cs)
     /\ entry_map' = EntryMap(entries, cs)
     /\ slot_rankings' = Rankings(d, entries, cs)
     /\ schedule' = EmptyMap
     /\ used_slots' = pre
     /\ unassigned' = <<>>
     /\ locked_slots' = locked
     /\ pc' = "loop"

\* schedule_construction_day_with_locked up to the head of the assignment
\* loop (lines 14-109): candidates, the day's last slot, the two groups, the
\* rankings, the initial last-slot assignment, the remaining candidates.
schedule_construction_day_with_locked ==
  /\ day = "construction" /\ pc = "start"
  /\ \E cs \in {SubSeqAt(Refs(entries), {r \in DOMAIN entries :
                   entries[r].wants_construction
                     /\ entries[r].construction_available_slots # <<>>})} :
     \E all_slots \in {UNION {Range(entries[cs[i]].construction_available_slots) : i \in DOMAIN cs}} :
     \E last \in {IF all_slots = {} THEN 49 ELSE Max(all_slots)} :
     \E priority \in {{r \in Range(cs) :
                        /\ entries[r].wants_research
                        /\ 1 \in Range(entries[r].research_available_slots)
                        /\ last \in Range(entries[r].construction_available_slots)}} :
     \E last_slot_priority \in {SortedCandidates("construction", entries,
                                  SubSeqAt(cs, {i \in DOMAIN cs : cs[i] \in priority}))} :
     \E other_candidates \in {SortedCandidates("construction", entries,
                                SubSeqAt(cs, {i \in DOMAIN cs : cs[i] \notin priority}))} :
     \E takers \in {{i \in DOMAIN last_slot_priority :
                      last \in Range(entries[last_slot_priority[i]].construction_available_slots)
                        /\ last \notin pre_locked["construction"]}} :
     \E last_slot_assigned \in {takers # {}} :
     \E sched0 \in {IF last_slot_assigned
                    THEN MapInsert(EmptyMap, last,
                           ScheduledAppointment(entries[last_slot_priority[Min(takers)]].player_id, last,
                             entries[last_slot_priority[Min(takers)]].construction_score))
                    ELSE EmptyMap} :
     \E used0 \in {IF last_slot_assigned THEN pre_locked["construction"] \cup {last}
                   ELSE pre_locked["construction"]} :
     \E kept \in {IF last_slot_assigned
                  THEN SubSeqAt(last_slot_priority,
                         {i \in DOMAIN last_slot_priority :
                            last \notin used0
                              \/ (IF last \in DOMAIN sched0
                                  THEN sched0[last].player_id # entries[last_slot_priority[i]].player_id
                                  ELSE TRUE)})
                  ELSE last_slot_priority} :
       /\ last_slot' = last
       /\ candidates' = SortedCandidates("construction", entries, kept \o other_candidates)
       /\ entry_map' = EntryMap(entries, cs)
       /\ slot_rankings' = Rankings("construction", entries, cs)
       /\ schedule' = sched0
       /\ used_slots' = used0
       /\ unassigned' = <<>>
       /\ locked_slots' = {}
       /\ pc' = "loop"
  /\ UNCHANGED <<inputs, web, config, merged, warnings, day, steal, forced, result>>

\* One iteration of the assignment loop of schedule_construction_day_with_locked.
ConstructionLoop ==
  /\ day = "construction" /\ pc = "loop" /\ candidates # <<>>
  /\ \E e \in {entries[Head(candidates)]} :
     \E out \in {ConstructionOutcome(e, schedule, used_slots, Deref(entries, entry_map),
                                     slot_rankings, last_slot)} :
        /\ candidates' = Tail(candidates)
        /\ \/ /\ out.kind = "free"
              /\ schedule' = MapInsert(schedule, out.slot,
                                ScheduledAppointment(e.player_id, out.slot, e.construction_score))
              /\ used_slots' = used_slots \cup {out.slot}
              /\ UNCHANGED <<unassigned, steal, pc>>
           \/ /\ out.kind = "steal"
              /\ entry' = <<Head(candidates)>>
              /\ requested_slot' = out.slot
              /\ move_chain' = out.chain
              /\ pc' = "apply"
              /\ UNCHANGED working
           \/ /\ out.kind = "none"
              /\ unassigned' = Append(unassigned, e.player_id)
              /\ UNCHANGED <<schedule, used_slots, steal, pc>>
  /\ UNCHANGED <<inputs, web, config, merged, warnings, day, entry_map, slot_rankings, last_slot, locked_slots, forced, result>>

\* The end of schedule_construction_day_with_locked; the caller goes on to
\* the research day with the returned schedule.
ConstructionReturn ==
  /\ day = "construction" /\ pc = "loop" /\ candidates = <<>>
  /\ result' = MapInsert(result, "construction", DaySchedule(schedule, unassigned))
  /\ day' = "research"
  /\ pc' = "start"
  /\ UNCHANGED <<inputs, web, config, merged, warnings, candidates, entry_map, slot_rankings, last_slot, locked_slots,
                 working, steal, forced>>

\* The orders in which a hash map or hash set may hand out the keys S.
Orders(S) == {o \in [1..Cardinality(S) -> S] : Range(o) = S}

\* A faulty variant: the key the iteration hands out first.
KeysMax_first_seen(keys) == keys[1]

\* keys().max(): the iterator's keys folded with max, in iteration order.
RECURSIVE KeysMax(_)
KeysMax(keys) ==
  IF Len(keys) = 1 THEN keys[1]
  ELSE LET rest == KeysMax(Tail(keys))
       IN IF keys[1] > rest THEN keys[1] ELSE rest

\* HashMap::extend: the pairs of other, in iteration order, inserted into m.
RECURSIVE Extend(_, _, _)
Extend(m, other, keys) ==
  IF keys = <<>> THEN m
  ELSE Extend(MapInsert(m, keys[1], other[keys[1]]), other, Tail(keys))

\* The forced hand-off of schedule_research_day_with_locked: the entry to
\* seat in research slot 1, as a set holding its index, or the empty set.
\* keys is the order in which the construction appointments are iterated;
\* fault "pre_lock" leaves out the test of slot 1.
FaultyForcedSeat(fault, es, appointments, keys, used) ==
  IF keys = <<>> THEN {}
  ELSE LET player_id == appointments[KeysMax(keys)].player_id
           found == {i \in DOMAIN es : es[i].player_id = player_id}
       IN IF /\ found # {}
             /\ es[Min(found)].wants_research
             /\ 1 \in Range(es[Min(found)].research_available_slots)
             /\ (fault = "pre_lock" \/ 1 \notin used)
          THEN {Min(found)}
          ELSE {}

\* A faulty variant: the forced seat is made over a pre-locked slot 1.
ForcedSeat_over_pre_lock(es, appointments, keys, used) ==
  FaultyForcedSeat("pre_lock", es, appointments, keys, used)

ForcedSeat(es, appointments, keys, used) ==
  FaultyForcedSeat("", es, appointments, keys, used)

\* schedule_research_day_with_locked up to the head of the generic loop:
\* the forced slot-1 seat (lines 17-48), the lock (51-54), the filtered
\* entries (58-68) and the set-up of the generic assigner called on them.
schedule_research_day_with_locked ==
  /\ day = "research" /\ pc = "start"
  /\ \E seat \in {ForcedSeat(entries, result["construction"].appointments, keys,
                             pre_locked["research"]) :
                    keys \in Orders(DOMAIN result["construction"].appointments)} :
     \E used0 \in {IF seat # {} THEN pre_locked["research"] \cup {1}
                   ELSE pre_locked["research"]} :
     \E filtered_entries \in {SubSeqAt(Refs(entries),
                                {r \in DOMAIN entries :
                                   \A i \in seat : entries[r].player_id # entries[i].player_id})} :
       /\ forced' = [s \in {1 : i \in seat} |->
                       ScheduledAppointment(entries[Min(seat)].player_id, 1,
                                            entries[Min(seat)].research_score)]
       /\ GenericSetup("research", filtered_entries, used0, IF 1 \in used0 THEN {1} ELSE {})
  /\ UNCHANGED <<inputs, web, config, merged, warnings, day, last_slot, steal, result>>

\* A faulty variant: the forced seat is not merged into the result.
ResearchReturn_inner_only ==
  /\ day = "research" /\ pc = "loop" /\ candidates = <<>>
  /\ result' = MapInsert(result, "research", DaySchedule(schedule, unassigned))
  /\ day' = "done"
  /\ pc' = "start"
  /\ UNCHANGED <<inputs, web, config, merged, warnings, candidates, entry_map, slot_rankings, last_slot, locked_slots,
                 working, steal, forced>>

\* The end of schedule_research_day_with_locked: the forced seat is merged
\* with the generic result (HashMap::extend: the generic entry wins a key),
\* whose pairs are handed out in any order.
ResearchReturn ==
  /\ day = "research" /\ pc = "loop" /\ candidates = <<>>
  /\ \E appointments \in {Extend(forced, schedule, keys) : keys \in Orders(DOMAIN schedule)} :
       result' = MapInsert(result, "research", DaySchedule(appointments, unassigned))
  /\ day' = "done"
  /\ pc' = "start"
  /\ UNCHANGED <<inputs, web, config, merged, warnings, candidates, entry_map, slot_rankings, last_slot, locked_slots,
                 working, steal, forced>>

\* schedule_troops_day_with_locked up to the head of the assignment loop.
schedule_troops_day_with_locked ==
  /\ day = "troops" /\ pc = "start"
  /\ GenericSetup("troops", Refs(entries), pre_locked["troops"], {})
  /\ UNCHANGED <<inputs, web, config, merged, warnings, day, last_slot, steal, forced, result>>

\* One iteration of the assignment loop of the generic assigner.
schedule_day_generic_with_locked_slots ==
  /\ day \in {"research", "troops"} /\ pc = "loop" /\ candidates # <<>>
  /\ \E e \in {entries[Head(candidates)]} :
     \E out \in {GenericOutcome(day, e, schedule, used_slots, Deref(entries, entry_map),
                                slot_rankings, locked_slots)} :
        /\ candidates' = Tail(candidates)
        /\ \/ /\ out.kind = "free"
              /\ schedule' = MapInsert(schedule, out.slot,
                                ScheduledAppointment(e.player_id, out.slot, get_priority_score(day, e)))
              /\ used_slots' = used_slots \cup {out.slot}
              /\ UNCHANGED <<unassigned, steal, pc>>
           \/ /\ out.kind = "steal"
              /\ entry' = <<Head(candidates)>>
              /\ requested_slot' = out.slot
              /\ move_chain' = out.chain
              /\ pc' = "apply"
              /\ UNCHANGED working
           \/ /\ out.kind = "none"
              /\ unassigned' = Append(unassigned, e.player_id)
              /\ UNCHANGED <<schedule, used_slots, steal, pc>>
  /\ UNCHANGED <<inputs, web, config, merged, warnings, day, entry_map, slot_rankings, last_slot, locked_slots, forced, result>>

\* A faulty variant: the moves are applied in the order of the chain.
apply_move_chain_forward ==
  /\ pc = "apply" /\ move_chain # <<>>
  /\ \E mv \in {move_chain[1]} :
     \E after \in {apply_move(mv, schedule, used_slots)} :
        /\ schedule' = after.schedule
        /\ used_slots' = after.used_slots
        /\ warnings' = warnings \o after.warning
        /\ move_chain' = Tail(move_chain)
  /\ UNCHANGED <<inputs, web, config, merged, day, pc, candidates, entry_map, slot_rankings, last_slot,
                 locked_slots, unassigned, entry, requested_slot, forced, result>>

\* One iteration of the loop of apply_move_chain: the last move not yet applied.
apply_move_chain ==
  /\ pc = "apply" /\ move_chain # <<>>
  /\ \E mv \in {move_chain[Len(move_chain)]} :
     \E after \in {apply_move(mv, schedule, used_slots)} :
        /\ schedule' = after.schedule
        /\ used_slots' = after.used_slots
        /\ warnings' = warnings \o after.warning
        /\ move_chain' = SubSeq(move_chain, 1, Len(move_chain) - 1)
  /\ UNCHANGED <<inputs, web, config, merged, day, pc, candidates, entry_map, slot_rankings, last_slot,
                 locked_slots, unassigned, entry, requested_slot, forced, result>>

\* After the chain: the candidate takes the freed slot (generic.rs 133-142,
\* construction.rs 238-247).
AssignFreedSlot ==
  /\ pc = "apply" /\ move_chain = <<>> /\ entry # <<>>
  /\ schedule' = MapInsert(schedule, requested_slot,
                   ScheduledAppointment(entries[entry[1]].player_id, requested_slot,
                                        get_priority_score(day, entries[entry[1]])))
  /\ used_slots' = used_slots \cup {requested_slot}
  /\ entry' = <<>>
  /\ requested_slot' = 0
  /\ pc' = "loop"
  /\ UNCHANGED <<inputs, web, config, merged, warnings, day, candidates, entry_map, slot_rankings, last_slot,
                 locked_slots, unassigned, move_chain, forced, result>>

\* The end of schedule_troops_day_with_locked: the DaySchedule is returned.
TroopsReturn ==
  /\ day = "troops" /\ pc = "loop" /\ candidates = <<>>
  /\ result' = MapInsert(result, "troops", DaySchedule(schedule, unassigned))
  /\ day' = "done"
  /\ pc' = "start"
  /\ UNCHANGED <<inputs, web, config, merged, warnings, candidates, entry_map, slot_rankings, last_slot, locked_slots,
                 working, steal, forced>>

\* A faulty variant: the merge starts from an empty map.
merge_day_new_only(existing_appointments, new, keys) ==
  DaySchedule(Extend(EmptyMap, new.appointments, keys), new.unassigned)

\* merge_day of generate_schedule_api: the existing appointments, and each
\* new appointment, in iteration order, whose slot they do not hold.
RECURSIVE merge_day(_, _, _)
merge_day(existing_appointments, new, keys) ==
  IF keys = <<>> THEN DaySchedule(existing_appointments, new.unassigned)
  ELSE merge_day(IF keys[1] \in DOMAIN existing_appointments
                 THEN existing_appointments
                 ELSE MapInsert(existing_appointments, keys[1], new.appointments[keys[1]]),
                 new, Tail(keys))

\* The end of generate_schedule_api: every day's new schedule is merged
\* with the existing one.
generate_schedule_api ==
  /\ day = "done" /\ pc = "start"
  /\ \E keys \in {o \in [DOMAIN result ->
                            UNION {Orders(DOMAIN result[d].appointments) : d \in DOMAIN result}] :
                     \A d \in DOMAIN result : Range(o[d]) = DOMAIN result[d].appointments} :
       merged' = [d \in DOMAIN result |-> merge_day(existing[d], result[d], keys[d])]
  /\ pc' = "merged"
  /\ UNCHANGED <<inputs, web, config, warnings, day, candidates, entry_map, slot_rankings, last_slot,
                 locked_slots, working, steal, forced, result>>

Next ==
  \/ schedule_construction_day_with_locked
  \/ ConstructionLoop
  \/ ConstructionReturn
  \/ schedule_research_day_with_locked
  \/ ResearchReturn
  \/ schedule_troops_day_with_locked
  \/ schedule_day_generic_with_locked_slots
  \/ apply_move_chain
  \/ AssignFreedSlot
  \/ TroopsReturn
  \/ generate_schedule_api

Spec == Init /\ [][Next]_vars

\* ------------------------------------------- the chain search on its own
\* find_move_chain and apply_move_chain as functions of their arguments: a
\* schedule in which player i sits in slot i, every player listing their own
\* slot, and a search rooted at any occupied slot with the arguments every
\* scheduler passes (depth 1, max_depth 5, visited = {root occupant}).
Seated(n, lists) ==
  [i \in 1..n |-> Entry(i, Absent, Absent, DayForm(TRUE, 1, lists[i]))]

\* A line of ChainPlayers players: each may move one or two slots up; the
\* slot after the last player is the only free one.
LineLists ==
  [1..ChainPlayers ->
     {SortedSeq(S) : S \in {{0}, {0, 1}, {0, 1, 2}}}]

\* NumPlayers players, each listing their own slot and at most two of the
\* other slots; one slot is free and one occupied slot may be locked.
\* A choice k stands for the k-th slot other than the player's own.
GraphLists ==
  [1..NumPlayers -> {S \in SUBSET (1..NumPlayers) : Cardinality(S) <= 2}]

InitChain ==
  /\ \/ /\ \E f \in LineLists :
           \E lists \in {[i \in 1..ChainPlayers |->
                            SortedSeq({i + f[i][j] : j \in DOMAIN f[i]} \cap 1..ChainPlayers + 1)]} :
             entries = Seated(ChainPlayers, lists)
        /\ locked_slots = {}
     \/ /\ \E f \in GraphLists :
           \E lists \in {[i \in 1..NumPlayers |->
                            SortedSeq({i} \cup {IF k < i THEN k ELSE k + 1 : k \in f[i]})]} :
             entries = Seated(NumPlayers, lists)
        /\ locked_slots \in {{}} \cup {{k} : k \in 1..NumPlayers}
  /\ pre_locked = NoPreLocked
  /\ existing = ExistingSchedule(pre_locked)
  /\ merged = EmptyMap
  /\ warnings = <<>>
  /\ submissions = <<>> /\ schedules = <<>> /\ requests = EmptyMap
  /\ start_time = <<0, 0>> /\ end_time = <<>> /\ time_slots = <<>>
  /\ day = "troops"
  /\ pc = "search"
  /\ candidates = <<>>
  /\ entry_map = [i \in DOMAIN entries |-> i]
  /\ slot_rankings = EmptyMap
  /\ last_slot = 0
  /\ schedule = [i \in DOMAIN entries |-> ScheduledAppointment(i, i, 1)]
  /\ used_slots = DOMAIN entries
  /\ unassigned = <<>>
  /\ entry = <<>>
  /\ requested_slot = 0
  /\ move_chain = <<>>
  /\ forced = EmptyMap
  /\ result = EmptyMap

\* The call every scheduler makes: find_move_chain for the occupant of a slot.
SearchChain ==
  /\ pc = "search"
  /\ \E slot \in DOMAIN schedule :
     \E pid \in {schedule[slot].player_id} :
     \E found \in {find_move_chain(pid, slot,
                     get_available_slots(day, entries[entry_map[pid]]), schedule, used_slots,
                     Deref(entries, entry_map), day, 1, MaxDepth, {pid}, locked_slots)} :
        /\ requested_slot' = slot
        /\ move_chain' = found.chain
        /\ pc' = IF found.some THEN "apply" ELSE "failed"
  /\ UNCHANGED <<inputs, web, config, merged, warnings, day, candidates, entry_map, slot_rankings, last_slot, locked_slots,
                 working, entry, forced, result>>

\* apply_move_chain has returned.
ChainApplied ==
  /\ pc = "apply" /\ move_chain = <<>> /\ entry = <<>>
  /\ pc' = "applied"
  /\ UNCHANGED <<inputs, web, config, merged, warnings, day, candidates, entry_map, slot_rankings, last_slot, locked_slots,
                 working, steal, forced, result>>

NextChain ==
  \/ SearchChain
  \/ apply_move_chain
  \/ ChainApplied

SpecChain == InitChain /\ [][NextChain]_vars

\* --------------------------------------------- the chain applier on its own
\* apply_move_chain as a function of its arguments: any list of at most
\* MaxMoves moves, applied to the schedule in which player i sits in slot i
\* and the slot after the last player is free.  A move may name a slot
\* nobody holds or a player who does not hold its from_slot.
InitApply ==
  /\ entries = Seated(NumPlayers, [i \in 1..NumPlayers |-> <<i>>])
  /\ \E n \in 1..MaxMoves :
       move_chain \in [1..n -> {Move(p, f, t) : p \in 1..NumPlayers,
                                               f \in 1..NumPlayers + 1,
                                               t \in 1..NumPlayers + 1}]
  /\ pre_locked = NoPreLocked
  /\ existing = ExistingSchedule(pre_locked)
  /\ merged = EmptyMap
  /\ warnings = <<>>
  /\ submissions = <<>> /\ schedules = <<>> /\ requests = EmptyMap
  /\ start_time = <<0, 0>> /\ end_time = <<>> /\ time_slots = <<>>
  /\ day = "troops"
  /\ pc = "apply"
  /\ candidates = <<>>
  /\ entry_map = [i \in DOMAIN entries |-> i]
  /\ slot_rankings = EmptyMap
  /\ last_slot = 0
  /\ locked_slots = {}
  /\ schedule = [i \in DOMAIN entries |-> ScheduledAppointment(i, i, 1)]
  /\ used_slots = DOMAIN entries
  /\ unassigned = <<>>
  /\ entry = <<>>
  /\ requested_slot = 0
  /\ forced = EmptyMap
  /\ result = EmptyMap

NextApply ==
  \/ apply_move_chain
  \/ ChainApplied

SpecApply == InitApply /\ [][NextApply]_vars

\* ------------------------------------- concurrent requests to the handler
\* apply_move_chain as a function: the moves of the chain, last move first.
RECURSIVE AppliedChain(_, _, _)
AppliedChain(chain, sched, used) ==
  IF chain = <<>> THEN [schedule |-> sched, used_slots |-> used]
  ELSE LET after == apply_move(chain[Len(chain)], sched, used)
       IN AppliedChain(SubSeq(chain, 1, Len(chain) - 1), after.schedule, after.used_slots)

\* The assignment loop of schedule_day_generic_with_locked_slots as a
\* function of its set-up: the DaySchedule it returns.
RECURSIVE GenericLoop(_, _, _, _, _, _, _, _, _)
GenericLoop(d, es, cands, emap, rankings, locked, sched, used, un) ==
  IF cands = <<>> THEN DaySchedule(sched, un)
  ELSE LET e == es[Head(cands)]
           out == GenericOutcome(d, e, sched, used, emap, rankings, locked)
           appt == ScheduledAppointment(e.player_id, out.slot, get_priority_score(d, e))
           after == AppliedChain(out.chain, sched, used)
       IN IF out.kind = "none"
          THEN GenericLoop(d, es, Tail(cands), emap, rankings, locked, sched, used,
                           Append(un, e.player_id))
          ELSE GenericLoop(d, es, Tail(cands), emap, rankings, locked,
                           MapInsert(after.schedule, out.slot, appt),
                           after.used_slots \cup {out.slot}, un)

\* schedule_troops_day_with_locked as a function of its arguments.
TroopsSchedule(es, pre) ==
  LET cs == GenericCandidates("troops", es, Refs(es))
  IN GenericLoop("troops", es, SortedCandidates("troops", es, cs), Deref(es, EntryMap(es, cs)),
                 Rankings("troops", es, cs), {}, EmptyMap, pre, <<>>)

\* The two requests in flight.
Requests == {1, 2}

\* What generate_schedule_api stores.  The submissions of this
\* specification ask for the troops day only, so the construction and the
\* research schedule of every request are empty and are left out.
ScheduleData(troops, ids) == [troops_schedule |-> troops, scheduled_player_ids |-> ids]

get_scheduled_player_ids(data) == data.scheduled_player_ids

\* The locals of a call of generate_schedule_api.
Request(at, es, existing_schedule) == [pc |-> at, entries |-> es, existing |-> existing_schedule]

InitAppend ==
  /\ submissions = <<>>
  /\ schedules = <<>>
  /\ requests = [r \in Requests |-> Request("start", <<>>, <<>>)]
  /\ start_time = <<0, 0>> /\ end_time = <<>> /\ time_slots = <<>>
  /\ entries = <<>> /\ pre_locked = NoPreLocked /\ existing = ExistingSchedule(pre_locked)
  /\ merged = EmptyMap /\ warnings = <<>> /\ day = "done" /\ pc = "web" /\ candidates = <<>>
  /\ entry_map = EmptyMap /\ slot_rankings = EmptyMap /\ last_slot = 0 /\ locked_slots = {}
  /\ schedule = EmptyMap /\ used_slots = {} /\ unassigned = <<>> /\ entry = <<>>
  /\ requested_slot = 0 /\ move_chain = <<>> /\ forced = EmptyMap /\ result = EmptyMap

scheduling == <<inputs, config, merged, warnings, day, pc, candidates, entry_map, slot_rankings,
                last_slot, locked_slots, working, steal, forced, result>>

\* submit_form_by_code: a player's submission is added to the form's file.
submit_form_by_code ==
  /\ Len(submissions) < NumPlayers
  /\ \E f \in DayForms :
       submissions' = Append(submissions, Entry(Len(submissions) + 1, Absent, Absent, f))
  /\ UNCHANGED <<schedules, requests, scheduling>>

\* generate_schedule_api up to the load of the submissions; a request with
\* no valid submission is answered with an error.
LoadSubmissions ==
  \E r \in Requests :
     /\ requests[r].pc = "start"
     /\ requests' = [requests EXCEPT ![r] =
                       IF submissions = <<>> THEN Request("done", <<>>, <<>>)
                       ELSE Request("loaded", submissions, <<>>)]
     /\ UNCHANGED <<submissions, schedules, scheduling>>

\* The load of the existing schedule of an append request: the lock on
\* state.schedules is held for the read only.
LoadExisting ==
  \E r \in Requests :
     /\ requests[r].pc = "loaded"
     /\ requests' = [requests EXCEPT ![r] = Request("read", requests[r].entries, schedules)]
     /\ UNCHANGED <<submissions, schedules, scheduling>>

\* The rest of generate_schedule_api: the entries not yet scheduled, the
\* schedulers with the existing slots pre-locked, the merge, and the insert
\* into state.schedules under the lock.  Nothing is stored when every
\* submission is already scheduled.
SaveToState ==
  \E r \in Requests :
     /\ requests[r].pc = "read"
     /\ \E old \in {requests[r].existing} :
        \E ids \in {IF old = <<>> THEN {} ELSE get_scheduled_player_ids(old[1])} :
        \E appointments \in {IF old = <<>> THEN EmptyMap ELSE old[1].troops_schedule.appointments} :
        \E entries_to_use \in {SelectSeq(requests[r].entries, LAMBDA e : e.player_id \notin ids)} :
           IF old # <<>> /\ entries_to_use = <<>>
           THEN UNCHANGED schedules
           ELSE \E new \in {TroopsSchedule(entries_to_use, DOMAIN appointments)} :
                \E keys \in Orders(DOMAIN new.appointments) :
                \E troops \in {merge_day(appointments, new, keys)} :
                   schedules' = <<ScheduleData(troops,
                                    {troops.appointments[s].player_id : s \in DOMAIN troops.appointments})>>
     /\ requests' = [requests EXCEPT ![r].pc = "done"]
     /\ UNCHANGED <<submissions, scheduling>>

NextAppend == submit_form_by_code \/ LoadSubmissions \/ LoadExisting \/ SaveToState

SpecAppend == InitAppend /\ [][NextAppend]_vars

\* ------------------------------------------------ every run of the engine
\* The runs of the schedulers and the runs of the chain search on its own.
InitRuns == Init \/ InitChain

NextRuns == Next \/ SearchChain \/ ChainApplied

SpecRuns == InitRuns /\ [][NextRuns]_vars

\* ------------------------------------------------- the time-slot table
\* calculate_time_slots as a function of its arguments: a start time and an
\* end time (or none) at any multiple of TimeGrain minutes after midnight.
Times == {minutes_to_time_string(k * TimeGrain) : k \in 0..((24 * 60 - 1) \div TimeGrain)}

InitSlots ==
  /\ start_time \in Times
  /\ end_time \in {<<>>} \cup {<<t>> : t \in Times}
  /\ time_slots = <<>>
  /\ submissions = <<>> /\ schedules = <<>> /\ requests = EmptyMap
  /\ entries = <<>> /\ pre_locked = NoPreLocked /\ existing = ExistingSchedule(pre_locked)
  /\ merged = EmptyMap /\ warnings = <<>> /\ day = "done" /\ pc = "config" /\ candidates = <<>>
  /\ entry_map = EmptyMap /\ slot_rankings = EmptyMap /\ last_slot = 0 /\ locked_slots = {}
  /\ schedule = EmptyMap /\ used_slots = {} /\ unassigned = <<>> /\ entry = <<>>
  /\ requested_slot = 0 /\ move_chain = <<>> /\ forced = EmptyMap /\ result = EmptyMap

\* The call of calculate_time_slots on a day's configured times.
TimeSlotsCalculated ==
  /\ pc = "config"
  /\ time_slots' = calculate_time_slots(start_time, end_time)
  /\ pc' = "slots"
  /\ UNCHANGED <<inputs, web, start_time, end_time, merged, warnings, day, candidates,
                 entry_map, slot_rankings, last_slot, locked_slots, working, steal, forced,
                 result>>

NextSlots == TimeSlotsCalculated

SpecSlots == InitSlots /\ [][NextSlots]_vars

TypeOK ==
  /\ day \in {"construction", "research", "troops", "done"}
  /\ pc \in {"start", "loop", "apply", "search", "failed", "applied", "merged", "web", "config", "slots"}
  /\ \A d \in DOMAIN pre_locked : pre_locked[d] = DOMAIN existing[d]
  /\ DOMAIN schedule \subseteq used_slots

\* ================================================================ properties
Days == {"construction", "research", "troops"}

Running == day \in Days /\ pc # "start"

\* The appointments a map holds are filed under their own slot and no
\* player holds two of them.
WellBooked(appts) ==
  /\ \A s \in DOMAIN appts : appts[s].slot = s
  /\ \A s, t \in DOMAIN appts : appts[s].player_id = appts[t].player_id => s = t

Holds(appts, pid) == \E s \in DOMAIN appts : appts[s].player_id = pid

\* C1: no double-booking.  In the working state of each of the three
\* schedulers, at every step (also between the moves of a chain that is
\* being applied and right after its last move) and in every returned
\* schedule, a slot holds one appointment, filed under that slot, and no
\* player holds two appointments; the forced research seat and the generic
\* assigner's map never share a slot or a player.
NoDoubleBooking ==
  /\ WellBooked(schedule)
  /\ DOMAIN forced \cap DOMAIN schedule = {}
  /\ \A s \in DOMAIN forced : ~Holds(schedule, forced[s].player_id)
  /\ \A d \in DOMAIN result : WellBooked(result[d].appointments)

\* A chain has just been applied to a schedule holding several appointments.
NoDoubleBookingWitness ==
  /\ pc = "apply" /\ move_chain = <<>> /\ entry # <<>>
  /\ Cardinality(DOMAIN schedule) >= 2
  /\ requested_slot \notin DOMAIN schedule

\* C2: pre-locked slots are never assigned.  While a scheduler runs, the
\* slots pre-locked for its day stay in the used-slot set and hold no
\* appointment, no move of a chain being applied goes to one of them, and
\* no returned appointment map has one of them as a key.
PreLockedNeverAssigned ==
  /\ Running =>
       /\ pre_locked[day] \subseteq used_slots
       /\ pre_locked[day] \cap (DOMAIN schedule \cup DOMAIN forced) = {}
       /\ \A i \in DOMAIN move_chain : move_chain[i].to_slot \notin pre_locked[day]
  /\ \A d \in DOMAIN result : pre_locked[d] \cap DOMAIN result[d].appointments = {}

\* A day has been scheduled with a pre-locked slot, and a candidate was left
\* unassigned although the occupant of one of the candidate's slots lists
\* the pre-locked slot.
PreLockedNeverAssignedWitness ==
  \E d \in DOMAIN result :
  \E u \in DOMAIN entries :
  \E s \in DOMAIN result[d].appointments :
    /\ pre_locked[d] # {}
    /\ entries[u].player_id \in Range(result[d].unassigned)
    /\ s \in Range(get_available_slots(d, entries[u]))
    /\ \E o \in DOMAIN entries :
         /\ entries[o].player_id = result[d].appointments[s].player_id
         /\ Range(get_available_slots(d, entries[o])) \cap pre_locked[d] # {}

\* C3: no move of a chain returned by find_move_chain leaves a locked slot:
\* the slot to vacate is never locked and locked occupied slots are skipped,
\* so the occupant of a locked slot stays where they are.
LockedNeverVacated ==
  /\ \A i \in DOMAIN move_chain : move_chain[i].from_slot \notin locked_slots
  /\ pc \in {"search", "failed", "apply", "applied"} =>
       \A s \in locked_slots \cap DOMAIN entries :
         s \in DOMAIN schedule /\ schedule[s].player_id = s

\* A chain was found while a slot is locked, and one of its movers lists the
\* locked slot.
LockedNeverVacatedWitness ==
  /\ pc = "apply" /\ move_chain # <<>> /\ locked_slots # {}
  /\ \E i \in DOMAIN move_chain :
       Range(get_available_slots(day, entries[entry_map[move_chain[i].player_id]]))
         \cap locked_slots # {}

\* C4: the cross-day link.  A player who occupies the day's maximum slot in
\* the construction schedule, wants research and lists research slot 1,
\* slot 1 not being pre-locked for research, holds the forced seat in slot 1
\* throughout the research run, is not a candidate of the generic assigner
\* (so no chain moves them), and in the returned research schedule sits in
\* slot 1, in no other slot, and is not unassigned.
CrossDayLink ==
  \A i \in DOMAIN entries :
    LET X == entries[i]
    IN (/\ "construction" \in DOMAIN result
        /\ last_slot \in DOMAIN result["construction"].appointments
        /\ result["construction"].appointments[last_slot].player_id = X.player_id
        /\ X.wants_research
        /\ 1 \in Range(X.research_available_slots)
        /\ 1 \notin pre_locked["research"])
       => /\ (day = "research" /\ pc # "start") =>
               /\ 1 \in DOMAIN forced /\ forced[1].player_id = X.player_id
               /\ 1 \in used_slots
               /\ ~Holds(schedule, X.player_id)
               /\ X.player_id \notin Range(unassigned)
               /\ i \notin Range(candidates) \cup Range(entry)
               /\ \A k \in DOMAIN move_chain :
                    move_chain[k].player_id # X.player_id /\ move_chain[k].from_slot # 1
          /\ "research" \in DOMAIN result =>
               LET appts == result["research"].appointments
               IN /\ 1 \in DOMAIN appts /\ appts[1].player_id = X.player_id
                  /\ \A s \in DOMAIN appts \ {1} : appts[s].player_id # X.player_id
                  /\ X.player_id \notin Range(result["research"].unassigned)

\* The research day is scheduled, the occupant of construction's maximum
\* slot was seated in slot 1, and a rival with a higher research score who
\* also lists slot 1 was not.
CrossDayLinkWitness ==
  \E i, j \in DOMAIN entries :
    /\ "research" \in DOMAIN result
    /\ last_slot \in DOMAIN result["construction"].appointments
    /\ result["construction"].appointments[last_slot].player_id = entries[i].player_id
    /\ 1 \in DOMAIN result["research"].appointments
    /\ result["research"].appointments[1].player_id = entries[i].player_id
    /\ entries[j].wants_research
    /\ 1 \in Range(entries[j].research_available_slots)
    /\ entries[j].research_score > entries[i].research_score

\* C5: combined-score gating over a construction run.  Whenever the chain
\* being applied moves the occupant of the day's maximum slot out of it, as
\* its root move or as a later move, the player who takes the slot over (the
\* candidate being seated for the root move, the mover of the preceding move
\* otherwise) has a combined score strictly greater than the player who
\* leaves it.
CombinedScoreGating ==
  (day = "construction" /\ pc = "apply") =>
    \A i \in DOMAIN move_chain :
      move_chain[i].from_slot = last_slot =>
        LET leaver == entries[entry_map[move_chain[i].player_id]]
            taker == IF i = 1 THEN entries[entry[1]]
                     ELSE entries[entry_map[move_chain[i - 1].player_id]]
        IN CombinedScore(taker) > CombinedScore(leaver)

\* The candidate the assignment loop is about to process, and the list the
\* candidate gave for the day.
Cand == entries[Head(candidates)]

CandSlots == get_available_slots(day, Cand)

AtLoopHead == day \in Days /\ pc = "loop" /\ candidates # <<>>

AtGenericLoopHead == AtLoopHead /\ day \in {"research", "troops"}

\* The entry of the player who holds slot s in the working schedule.
Occupant(s) == entries[entry_map[schedule[s].player_id]]

\* The listed slots of entry e, other than s, that are not in use.
FreeAlternates(e, s) ==
  {i \in DOMAIN get_available_slots(day, e) :
     get_available_slots(day, e)[i] # s /\ get_available_slots(day, e)[i] \notin used_slots}

\* C6 as stated: on Example A (A: score 100, slots 1 and 5; B: score 50,
\* slot 5) the result is {5: A} with B unassigned, and a candidate who lists
\* a single slot never seeds a chain: no chain is ever pending for such a
\* candidate.
ExampleAStated ==
  /\ (entries = ExampleA /\ "troops" \in DOMAIN result) =>
       result["troops"] = DaySchedule(5 :> ScheduledAppointment(1, 5, 100), <<2>>)
  /\ (Running /\ pc = "apply" /\ entry # <<>>) =>
       Len(get_available_slots(day, entries[entry[1]])) > 1

\* What the code returns on Example A.
ExampleAResult ==
  (entries = ExampleA /\ "troops" \in DOMAIN result) =>
    result["troops"] = DaySchedule(1 :> ScheduledAppointment(1, 1, 100)
                                     @@ 5 :> ScheduledAppointment(2, 5, 50), <<>>)

\* The iteration of the generic loop for a candidate whose only listed slot
\* is occupied.
OnlySlotOccupiedStep ==
  (AtGenericLoopHead /\ Len(CandSlots) = 1 /\ CandSlots[1] \in DOMAIN schedule) =>
    LET s == CandSlots[1]
        o == Occupant(s)
    IN /\ Len(get_available_slots(day, o)) = 1 =>
            /\ unassigned' = Append(unassigned, Cand.player_id)
            /\ schedule' = schedule /\ used_slots' = used_slots /\ pc' = "loop"
       /\ FreeAlternates(o, s) # {} =>
            /\ pc' = "apply" /\ entry' = <<Head(candidates)>> /\ requested_slot' = s
            /\ move_chain' = <<Move(o.player_id, s,
                                    get_available_slots(day, o)[Min(FreeAlternates(o, s))])>>
            /\ unassigned' = unassigned

\* C6, amended: on Example A the result is {1: A, 5: B} with nobody
\* unassigned.  In the generic assigner a candidate whose only listed slot is
\* occupied is left unassigned, the schedule unchanged, when the occupant
\* lists no other slot; when the occupant lists another slot that is not in
\* use, the candidate seeds the one-move chain sending the occupant to the
\* first such slot and then takes the slot.  The candidate's own lack of
\* alternatives plays no part.
OccupantDecides == []ExampleAResult /\ [][OnlySlotOccupiedStep]_vars

\* Example A has been scheduled.
OccupantDecidesWitness ==
  /\ entries = ExampleA /\ "troops" \in DOMAIN result
  /\ Holds(result["troops"].appointments, 2)

\* Every slot the candidate lists holds an appointment, and the occupant of
\* one of them lists another slot that is not in use.
AllOccupiedOneMovable ==
  /\ AtGenericLoopHead
  /\ Range(CandSlots) \subseteq DOMAIN schedule
  /\ \E s \in Range(CandSlots) : FreeAlternates(Occupant(s), s) # {}

OneMove(s) ==
  <<Move(schedule[s].player_id, s,
         get_available_slots(day, Occupant(s))[Min(FreeAlternates(Occupant(s), s))])>>

\* What the code returns on Example B.
ExampleBResult ==
  (entries = ExampleB /\ "troops" \in DOMAIN result) =>
    result["troops"] = DaySchedule(2 :> ScheduledAppointment(1, 2, 99)
                                     @@ 9 :> ScheduledAppointment(2, 9, 10), <<>>)

\* C7 as stated: a candidate whose every listed slot is occupied, one of
\* them by an occupant with a free alternative slot, is scheduled by a
\* one-move chain that moves such an occupant, and takes the vacated slot,
\* whatever the scores; on Example B (F: 99, slots 9 and 2, in slot 9;
\* E: 10, slot 9) the result is {9: E, 2: F}.
OneMoveStated ==
  /\ []ExampleBResult
  /\ [][AllOccupiedOneMovable =>
          \E s \in Range(CandSlots) :
            /\ FreeAlternates(Occupant(s), s) # {}
            /\ pc' = "apply" /\ requested_slot' = s /\ move_chain' = OneMove(s)]_vars

\* The iteration of the generic loop for such a candidate.
SeatedByChainStep ==
  AllOccupiedOneMovable =>
    /\ pc' = "apply" /\ entry' = <<Head(candidates)>> /\ unassigned' = unassigned
    /\ requested_slot' \in Range(CandSlots)
    /\ move_chain' # <<>>
    /\ move_chain'[1].player_id = schedule[requested_slot'].player_id
    /\ move_chain'[1].from_slot = requested_slot'
    /\ \A s \in Range(CandSlots) :
         FreeAlternates(Occupant(s), s) # {} =>
           schedule[requested_slot'].priority_score <= schedule[s].priority_score
    /\ FreeAlternates(Occupant(requested_slot'), requested_slot') # {} =>
         move_chain' = OneMove(requested_slot')

\* The insert that follows the applied chain.
TakesFreedSlotStep ==
  (pc = "apply" /\ move_chain = <<>> /\ entry # <<>>) =>
    /\ requested_slot \in DOMAIN schedule'
    /\ schedule'[requested_slot].player_id = entries[entry[1]].player_id
    /\ \A s \in DOMAIN schedule : s \in DOMAIN schedule' /\ schedule'[s] = schedule[s]

\* C7, amended: such a candidate is always seated, whatever the scores: a
\* chain rooted at the occupant of one of the candidate's slots is applied
\* and the candidate then takes that slot.  The root occupant's score is no
\* higher than that of any occupant with a free alternative; when the root
\* occupant has a free alternative itself the chain is the single move to
\* the first such slot, otherwise the chain is longer and the candidate
\* takes the root's slot, not the slot of the occupant with the free
\* alternative.  On Example B the result is {9: E, 2: F}.
SeatedByChain ==
  /\ []ExampleBResult
  /\ [][SeatedByChainStep /\ TakesFreedSlotStep]_vars

\* On Example B, E (score 10) has seeded the chain that moves F (score 99)
\* from slot 9 to slot 2.
SeatedByChainWitness ==
  /\ entries = ExampleB /\ pc = "apply" /\ entry = <<2>>
  /\ move_chain = <<Move(1, 9, 2)>>

\* C8: a chain returned by find_move_chain called with depth 1 and
\* max_depth 5 has at most 5 moves.
ChainLengthBounded == Len(move_chain) <= MaxDepth

\* A chain of exactly 5 moves was found.
ChainLengthBoundedWitness == pc = "apply" /\ Len(move_chain) = MaxDepth

\* C9: a returned chain is cycle-free: no player is the mover of two of its
\* moves and no slot is the source of two of its moves.
ChainCycleFree ==
  \A i, j \in DOMAIN move_chain :
    i # j => /\ move_chain[i].player_id # move_chain[j].player_id
             /\ move_chain[i].from_slot # move_chain[j].from_slot

\* A chain of several moves was found whose last mover also lists the slot
\* of an earlier mover of the chain.
ChainCycleFreeWitness ==
  /\ pc = "apply" /\ Len(move_chain) >= 2
  /\ \E i \in 1..Len(move_chain) - 1 :
       move_chain[i].from_slot \in
         Range(get_available_slots(day,
                 entries[entry_map[move_chain[Len(move_chain)].player_id]]))

\* C10: in every returned schedule, an entry that wants the day and lists
\* at least one slot for it is accounted for exactly once, as the holder of
\* one appointment or as one element of the unassigned list; any other
\* entry holds no appointment and is not in the unassigned list.
EveryCandidateAccounted ==
  \A d \in DOMAIN result :
  \A i \in DOMAIN entries :
    LET pid == entries[i].player_id
        appts == result[d].appointments
        un == result[d].unassigned
        seated == Cardinality({s \in DOMAIN appts : appts[s].player_id = pid})
        listed == Cardinality({k \in DOMAIN un : un[k] = pid})
    IN IF wants_filter(d, entries[i]) /\ get_available_slots(d, entries[i]) # <<>>
       THEN seated + listed = 1
       ELSE seated = 0 /\ listed = 0

\* A returned schedule with an appointment and an unassigned candidate, for
\* entries one of which wants the day and lists no slot.
EveryCandidateAccountedWitness ==
  \E d \in DOMAIN result :
    /\ result[d].unassigned # <<>>
    /\ DOMAIN result[d].appointments # {}
    /\ \E i \in DOMAIN entries :
         wants_filter(d, entries[i]) /\ get_available_slots(d, entries[i]) = <<>>

\* C11: a forced seat in research slot 1 is given only to the occupant of
\* construction's maximum slot, the slot last_slot that the construction
\* scheduler contests; when that slot has no occupant in the construction
\* schedule, nobody is force-seated.
ForcedSeatOnlyForMaxSlot ==
  \A s \in DOMAIN forced :
    /\ "construction" \in DOMAIN result
    /\ last_slot \in DOMAIN result["construction"].appointments
    /\ result["construction"].appointments[last_slot].player_id = forced[s].player_id

\* The entries of the occupant of construction's maximum slot, once the
\* construction schedule is returned.
MaxSlotHolder ==
  IF "construction" \in DOMAIN result
     /\ last_slot \in DOMAIN result["construction"].appointments
  THEN {i \in DOMAIN entries :
          entries[i].player_id = result["construction"].appointments[last_slot].player_id}
  ELSE {}

\* C12: when research slot 1 is pre-locked no forced seat is made, the
\* returned research appointments have no entry for slot 1, and the
\* occupant of construction's maximum slot, if a research candidate, is in
\* the generic pool: while the research scheduler runs they are waiting,
\* being processed, seated or unassigned, and in the returned schedule they
\* hold one slot of their list other than slot 1 or are listed unassigned.
PreLockedSlotOneNoForcedSeat ==
  1 \in pre_locked["research"] =>
    /\ forced = EmptyMap
    /\ "research" \in DOMAIN result => 1 \notin DOMAIN result["research"].appointments
    /\ \A i \in MaxSlotHolder :
         wants_filter("research", entries[i]) /\ get_available_slots("research", entries[i]) # <<>> =>
           /\ day = "research" /\ pc # "start" =>
                \/ i \in Range(candidates)
                \/ entry = <<i>>
                \/ Holds(schedule, entries[i].player_id)
                \/ entries[i].player_id \in Range(unassigned)
           /\ "research" \in DOMAIN result =>
                \/ \E s \in DOMAIN result["research"].appointments :
                     /\ result["research"].appointments[s].player_id = entries[i].player_id
                     /\ s # 1
                     /\ s \in Range(entries[i].research_available_slots)
                     /\ entries[i].player_id \notin Range(result["research"].unassigned)
                \/ /\ entries[i].player_id \in Range(result["research"].unassigned)
                   /\ ~Holds(result["research"].appointments, entries[i].player_id)

\* Research slot 1 is pre-locked and the occupant of construction's maximum
\* slot, who wants research and lists slot 1, is given another slot of
\* their list by the generic assigner.
PreLockedSlotOneNoForcedSeatWitness ==
  /\ 1 \in pre_locked["research"]
  /\ "research" \in DOMAIN result
  /\ \E i \in MaxSlotHolder :
       /\ entries[i].wants_research
       /\ 1 \in Range(entries[i].research_available_slots)
       /\ Holds(result["research"].appointments, entries[i].player_id)

\* The steps of the day schedulers that iterate a hash map: the keys of the
\* construction appointments (research.rs 22) and the pairs of the generic
\* result (research.rs 81).  Every other step walks vectors and sorted
\* lists only.
HashIteratingStep == schedule_research_day_with_locked \/ ResearchReturn

\* Whatever order the hash map hands out its keys in, the step taken is
\* the only outcome the step can have.
OnlyStep == \E after \in {vars'} : ~ENABLED (HashIteratingStep /\ vars' # after)

\* C13: determinism.  The candidate list, its order, the pre-locked sets
\* and, for research, the construction schedule are part of the state and
\* no step changes the inputs; a step that iterates a hash map has one
\* outcome whatever the iteration order, so two runs on the same inputs
\* return the same appointments and the same unassigned lists.
Deterministic == [][OnlyStep /\ UNCHANGED inputs]_vars

\* A forced seat was made from a construction schedule holding several
\* appointments, whose keys can be handed out in several orders, and the
\* research schedule returned merges it with a generic appointment.
DeterministicWitness ==
  /\ "research" \in DOMAIN result
  /\ Cardinality(DOMAIN result["construction"].appointments) >= 2
  /\ forced # EmptyMap
  /\ schedule # EmptyMap

\* C14: in an append run, every appointment of the existing schedule is in
\* the merged schedule of its day unchanged, every newly computed
\* appointment is in the merged schedule under its own slot, which the
\* existing schedule does not hold, and the merged schedule holds nothing
\* else.
AppendKeepsExisting ==
  \A d \in DOMAIN merged :
    /\ \A s \in DOMAIN existing[d] :
         s \in DOMAIN merged[d].appointments /\ merged[d].appointments[s] = existing[d][s]
    /\ \A s \in DOMAIN result[d].appointments :
         /\ s \notin DOMAIN existing[d]
         /\ s \in DOMAIN merged[d].appointments
         /\ merged[d].appointments[s] = result[d].appointments[s]
    /\ DOMAIN merged[d].appointments = DOMAIN existing[d] \cup DOMAIN result[d].appointments
    /\ merged[d].unassigned = result[d].unassigned

\* A merged day that holds an existing appointment and several new ones.
AppendKeepsExistingWitness ==
  \E d \in DOMAIN merged :
    /\ existing[d] # EmptyMap
    /\ Cardinality(DOMAIN result[d].appointments) >= 2

\* The combined score as stated: the construction score, plus the research
\* score exactly when the person wants research and lists research slot 1.
StatedCombinedScore(e) ==
  e.construction_score +
    (IF e.wants_research /\ 1 \in Range(e.research_available_slots) THEN e.research_score ELSE 0)

\* The construction loop is about to process a candidate all of whose
\* listed slots are in use.
AtConstructionSteal ==
  /\ AtLoopHead /\ day = "construction"
  /\ \A s \in Range(CandSlots) : s \in used_slots

\* Such a candidate lists the maximum slot, whose occupant's combined score
\* is not lower than the candidate's.
MaxSlotGated ==
  /\ AtConstructionSteal
  /\ last_slot \in Range(CandSlots) /\ last_slot \in DOMAIN schedule
  /\ StatedCombinedScore(Cand) <= StatedCombinedScore(Occupant(last_slot))

\* A chain exists that vacates the occupied slot s of the working schedule.
Vacatable(s) ==
  find_move_chain(schedule[s].player_id, s, get_available_slots(day, Occupant(s)), schedule,
                  used_slots, Deref(entries, entry_map), day, 1, MaxDepth,
                  {schedule[s].player_id}, locked_slots).some

\* The iteration of the construction loop for a candidate with no free slot.
GatedRootStep ==
  /\ (AtConstructionSteal /\ pc' = "apply" /\ requested_slot' = last_slot) =>
       StatedCombinedScore(Cand) > StatedCombinedScore(Occupant(last_slot))
  /\ MaxSlotGated =>
       IF \E s \in (Range(CandSlots) \cap DOMAIN schedule) \ {last_slot} : Vacatable(s)
       THEN /\ pc' = "apply" /\ entry' = <<Head(candidates)>>
            /\ requested_slot' \in (Range(CandSlots) \cap DOMAIN schedule) \ {last_slot}
            /\ Vacatable(requested_slot')
       ELSE /\ pc' = "loop" /\ schedule' = schedule
            /\ unassigned' = Append(unassigned, Cand.player_id)

\* C15: in the construction loop a chain search rooted at the maximum
\* slot's occupant is started only for a candidate whose combined score is
\* strictly greater than the occupant's; with an equal or lower combined
\* score the maximum slot is skipped and the other contested slots are
\* tried: the candidate steals one of them if a chain vacates it and is
\* left unassigned otherwise.
MaxSlotRootGated == [][GatedRootStep]_vars

\* The maximum slot was skipped for a candidate whose combined score equals
\* or is below its occupant's, and a chain rooted at another slot is being
\* applied for the candidate.
MaxSlotRootGatedWitness ==
  /\ day = "construction" /\ pc = "apply" /\ entry # <<>>
  /\ requested_slot # last_slot
  /\ last_slot \in Range(entries[entry[1]].construction_available_slots)
  /\ last_slot \in DOMAIN schedule
  /\ StatedCombinedScore(entries[entry[1]]) <= StatedCombinedScore(Occupant(last_slot))

\* The entries the construction scheduler considers, and the day's maximum
\* slot: the greatest slot any of them lists.
ConstructionCandidates ==
  {i \in DOMAIN entries :
     entries[i].wants_construction /\ entries[i].construction_available_slots # <<>>}

MaximumSlot ==
  Max(UNION {Range(entries[i].construction_available_slots) : i \in ConstructionCandidates})

\* The candidates who want construction and research and list research
\* slot 1 and the day's maximum construction slot.
LinkedCandidates ==
  {i \in ConstructionCandidates :
     /\ entries[i].wants_research
     /\ 1 \in Range(entries[i].research_available_slots)
     /\ MaximumSlot \in Range(entries[i].construction_available_slots)}

\* The member with the highest construction score, the first in input
\* order among equals.
BestLinked ==
  Min({i \in LinkedCandidates :
         \A j \in LinkedCandidates : entries[j].construction_score <= entries[i].construction_score})

\* The step from the call of schedule_construction_day_with_locked to the
\* head of its loop.
InitialAssignmentStep ==
  (day = "construction" /\ pc = "start" /\ ConstructionCandidates # {}) =>
    /\ pc' = "loop" /\ unassigned' = <<>>
    /\ IF LinkedCandidates # {} /\ MaximumSlot \notin pre_locked["construction"]
       THEN /\ schedule' = MapInsert(EmptyMap, MaximumSlot,
                             ScheduledAppointment(entries[BestLinked].player_id, MaximumSlot,
                                                  entries[BestLinked].construction_score))
            /\ used_slots' = pre_locked["construction"] \cup {MaximumSlot}
            /\ Range(candidates') = ConstructionCandidates \ {BestLinked}
            /\ Len(candidates') = Cardinality(ConstructionCandidates) - 1
       ELSE /\ schedule' = EmptyMap
            /\ used_slots' = pre_locked["construction"]
            /\ Range(candidates') = ConstructionCandidates
            /\ Len(candidates') = Cardinality(ConstructionCandidates)

\* C16: when some candidate wants construction and research and lists
\* research slot 1 and the day's maximum slot, and the maximum slot is not
\* pre-locked, the loop starts from a schedule whose only appointment gives
\* the maximum slot to the linked candidate with the highest construction
\* score (the first in input order among equals), and every other candidate
\* waits for the loop; when the maximum slot is pre-locked or no candidate
\* is linked, the loop starts from an empty schedule with every candidate
\* waiting.
InitialLastSlotAssignment == [][InitialAssignmentStep]_vars

\* The loop is about to start after an initial assignment chosen among
\* linked candidates of different construction scores, the best of whom is
\* not the first in input order.
InitialLastSlotAssignmentWitness ==
  /\ day = "construction" /\ pc = "loop"
  /\ Len(candidates) = Cardinality(ConstructionCandidates) - 1
  /\ DOMAIN schedule = {MaximumSlot}
  /\ schedule[MaximumSlot].player_id = entries[BestLinked].player_id
  /\ \E j \in LinkedCandidates :
       j < BestLinked /\ entries[j].construction_score < entries[BestLinked].construction_score

\* In the chain search on its own, the schedule and the used-slot set the
\* search was made on, and the chain it returned for the slot to vacate.
SearchedSchedule == [i \in DOMAIN entries |-> ScheduledAppointment(i, i, 1)]

SearchedUsed == DOMAIN entries

FoundChain ==
  find_move_chain(requested_slot, requested_slot,
                  get_available_slots(day, entries[requested_slot]), SearchedSchedule,
                  SearchedUsed, Deref(entries, entry_map), day, 1, MaxDepth,
                  {requested_slot}, locked_slots).chain

\* One iteration of apply_move_chain: the move applied is the last one not
\* yet applied; its target is unoccupied, its mover arrives there, and no
\* other appointment changes.
MoveAppliedStep ==
  (pc = "apply" /\ move_chain # <<>>) =>
    LET mv == move_chain[Len(move_chain)]
    IN /\ mv.to_slot \notin DOMAIN schedule
       /\ mv.from_slot \in DOMAIN schedule
       /\ schedule[mv.from_slot].player_id = mv.player_id
       /\ DOMAIN schedule' = (DOMAIN schedule \ {mv.from_slot}) \cup {mv.to_slot}
       /\ schedule'[mv.to_slot] = [schedule[mv.from_slot] EXCEPT !.slot = mv.to_slot]
       /\ \A s \in DOMAIN schedule \ {mv.from_slot} : schedule'[s] = schedule[s]
       /\ used_slots' = (used_slots \ {mv.from_slot}) \cup {mv.to_slot}

\* The schedule and the used-slot set once the whole chain is applied.
ChainAppliedResult ==
  pc = "applied" =>
    /\ FoundChain # <<>>
    /\ \A i \in DOMAIN FoundChain :
         /\ FoundChain[i].to_slot \in DOMAIN schedule
         /\ schedule[FoundChain[i].to_slot].player_id = FoundChain[i].player_id
         /\ schedule[FoundChain[i].to_slot].slot = FoundChain[i].to_slot
    /\ FoundChain[1].from_slot = requested_slot
    /\ requested_slot \notin DOMAIN schedule
    /\ requested_slot \notin used_slots
    /\ FoundChain[Len(FoundChain)].to_slot \in used_slots
    /\ \A s \in DOMAIN SearchedSchedule :
         (\A i \in DOMAIN FoundChain : FoundChain[i].player_id # SearchedSchedule[s].player_id) =>
           s \in DOMAIN schedule /\ schedule[s] = SearchedSchedule[s]
    /\ Cardinality(DOMAIN schedule) = Cardinality(DOMAIN SearchedSchedule)
    /\ used_slots = (SearchedUsed \ {requested_slot}) \cup {FoundChain[Len(FoundChain)].to_slot}

\* C17: a chain returned by find_move_chain, applied by apply_move_chain to
\* the schedule and used-slot set it was found on.  Each move finds its
\* to_slot unoccupied when it is applied, so no appointment is overwritten
\* or lost; afterwards each moved player is in their to_slot, the root
\* move's from_slot is unoccupied and not in the used-slot set, the final
\* move's to_slot is in the used-slot set, and the appointments of the
\* players not in the chain are unchanged.
ChainAppliedFrame == []ChainAppliedResult /\ [][MoveAppliedStep]_vars

\* A chain of several moves has been applied.
ChainAppliedFrameWitness ==
  /\ pc = "applied" /\ Len(FoundChain) >= 3
  /\ locked_slots = {}

\* The entry of the mover of a move.
Mover(mv) == entries[entry_map[mv.player_id]]

\* C18: a chain returned by find_move_chain is well linked.  With the chain
\* found and none of its moves applied yet: it has a first move, whose
\* from_slot is the slot to vacate and whose player is that slot's
\* occupant; each move's to_slot is the next move's from_slot, which the
\* next move's player occupies in the searched schedule; the last move's
\* to_slot is not in the used-slot set; every move's to_slot is in its
\* mover's availability list and differs from its from_slot.
ChainWellLinked ==
  (pc = "apply" /\ schedule = SearchedSchedule /\ used_slots = SearchedUsed) =>
    /\ move_chain # <<>>
    /\ move_chain[1].from_slot = requested_slot
    /\ move_chain[1].player_id = schedule[requested_slot].player_id
    /\ \A i \in 1..Len(move_chain) - 1 :
         /\ move_chain[i].to_slot = move_chain[i + 1].from_slot
         /\ move_chain[i + 1].from_slot \in DOMAIN schedule
         /\ schedule[move_chain[i + 1].from_slot].player_id = move_chain[i + 1].player_id
    /\ move_chain[Len(move_chain)].to_slot \notin used_slots
    /\ \A i \in DOMAIN move_chain :
         /\ move_chain[i].to_slot \in Range(get_available_slots(day, Mover(move_chain[i])))
         /\ move_chain[i].to_slot # move_chain[i].from_slot

\* A chain of several moves was found whose movers each list more than the
\* slot they move to.
ChainWellLinkedWitness ==
  /\ pc = "apply" /\ schedule = SearchedSchedule /\ used_slots = SearchedUsed
  /\ Len(move_chain) >= 3
  /\ \A i \in DOMAIN move_chain :
       Len(get_available_slots(day, Mover(move_chain[i]))) >= 3

\* The popularity of slot s in the running generic assigner: the number of
\* times the availability lists of its candidates name the slot.
Popularity(s) ==
  Cardinality(UNION {{<<r, j>> : j \in {k \in DOMAIN get_available_slots(day, entries[r]) :
                                           get_available_slots(day, entries[r])[k] = s}} :
                     r \in Range(entry_map)})

\* The positions of the candidate's list that hold a slot not in use, and
\* the first of the most popular of them.
FreePositions == {j \in DOMAIN CandSlots : CandSlots[j] \notin used_slots}

BestFreeSlot ==
  CandSlots[Min({j \in FreePositions :
                   \A k \in FreePositions : Popularity(CandSlots[k]) <= Popularity(CandSlots[j])})]

\* The iteration of the generic loop for a candidate with a free slot.
FreeSlotStep ==
  (AtGenericLoopHead /\ FreePositions # {}) =>
    /\ schedule' = MapInsert(schedule, BestFreeSlot,
                     ScheduledAppointment(Cand.player_id, BestFreeSlot,
                                          get_priority_score(day, Cand)))
    /\ BestFreeSlot \notin DOMAIN schedule
    /\ used_slots' = used_slots \cup {BestFreeSlot}
    /\ pc' = "loop" /\ move_chain' = <<>> /\ entry' = <<>>
    /\ unassigned' = unassigned
    /\ candidates' = Tail(candidates)

\* C19: a candidate of the generic assigner with an acceptable slot outside
\* the used-slot set is assigned the most popular of their free slots, the
\* earliest in their list among equally popular ones; no chain is searched
\* or applied and every other appointment stays as it is.
FreeSlotByPopularity == [][FreeSlotStep]_vars

\* The first candidate was given a slot that is not the first of their
\* list, a less popular slot listed before it being still free.
FreeSlotByPopularityWitness ==
  /\ day = "troops" /\ pc = "loop" /\ pre_locked = NoPreLocked
  /\ Cardinality(DOMAIN schedule) = 1
  /\ \E s \in DOMAIN schedule :
     \E e \in {entries[entry_map[schedule[s].player_id]]} :
     \E j, k \in DOMAIN e.troops_available_slots :
       /\ e.troops_available_slots[k] = s
       /\ j < k
       /\ e.troops_available_slots[j] \notin used_slots

\* The occupied slots of the candidate's list from which a chain was found.
Contested == {s \in Range(CandSlots) \cap DOMAIN schedule : Vacatable(s)}

\* The iteration of the generic loop for a candidate with no free slot: the
\* chain kept is the one found for the lowest-scored occupant for whom a
\* chain exists, and nothing is applied yet.
LowestOccupantStep ==
  (AtGenericLoopHead /\ FreePositions = {}) =>
    /\ schedule' = schedule /\ used_slots' = used_slots
    /\ candidates' = Tail(candidates)
    /\ IF Contested # {}
       THEN /\ pc' = "apply" /\ entry' = <<Head(candidates)>>
            /\ unassigned' = unassigned
            /\ requested_slot' \in Contested
            /\ \A s \in Contested :
                 schedule[requested_slot'].priority_score <= schedule[s].priority_score
            /\ move_chain' =
                 find_move_chain(schedule[requested_slot'].player_id, requested_slot',
                                 get_available_slots(day, Occupant(requested_slot')), schedule,
                                 used_slots, Deref(entries, entry_map), day, 1, MaxDepth,
                                 {schedule[requested_slot'].player_id}, locked_slots).chain
       ELSE /\ pc' = "loop" /\ entry' = <<>>
            /\ unassigned' = Append(unassigned, Cand.player_id)

\* While that chain is being applied no other candidate is processed and no
\* other chain is searched; after its last move the candidate takes the
\* slot it vacated and the loop goes on.
OneChainStep ==
  (day \in {"research", "troops"} /\ pc = "apply" /\ entry # <<>>) =>
    /\ candidates' = candidates /\ unassigned' = unassigned
    /\ IF move_chain # <<>>
       THEN /\ pc' = "apply" /\ entry' = entry /\ requested_slot' = requested_slot
            /\ move_chain' = SubSeq(move_chain, 1, Len(move_chain) - 1)
       ELSE /\ pc' = "loop" /\ entry' = <<>> /\ move_chain' = <<>>
            /\ requested_slot \notin DOMAIN schedule
            /\ schedule' = MapInsert(schedule, requested_slot,
                             ScheduledAppointment(entries[entry[1]].player_id, requested_slot,
                                                  get_priority_score(day, entries[entry[1]])))
            /\ used_slots' = used_slots \cup {requested_slot}

\* C20: a candidate of the generic assigner with no free acceptable slot
\* displaces the occupant with the lowest priority score among the
\* occupants of their slots for whom find_move_chain succeeds: no occupant
\* with a lower score and a chain is passed over.  That one chain is applied
\* for the candidate, who then takes the slot it vacated; with no chain for
\* any occupant the candidate is listed unassigned.
LowestOccupantDisplaced == [][LowestOccupantStep /\ OneChainStep]_vars

\* A chain is being applied for a candidate two of whose slots have an
\* occupant with a chain, the displaced one having the lower score.
LowestOccupantDisplacedWitness ==
  /\ day = "troops" /\ pc = "apply" /\ entry # <<>> /\ Len(move_chain) = 1
  /\ move_chain[1].from_slot = requested_slot
  /\ \E s \in Range(entries[entry[1]].troops_available_slots) \cap DOMAIN schedule :
       /\ s # requested_slot
       /\ schedule[s].priority_score > schedule[requested_slot].priority_score
       /\ FreeAlternates(Occupant(s), s) # {}

\* The candidates of the running generic assigner that the loop has
\* already taken from the list.
Processed == Range(entry_map) \ Range(candidates)

DayScore(r) == get_priority_score(day, entries[r])

\* C21: the generic assigner processes its candidates in non-increasing
\* order of priority score, candidates of equal score in input order: the
\* waiting candidates are in that order, the loop takes the first of them,
\* and no waiting candidate has a higher score than a candidate already
\* processed, or the same score and an earlier place in the input.
ProcessedBestFirst ==
  (day \in {"research", "troops"} /\ pc \in {"loop", "apply"}) =>
    /\ \A i, j \in DOMAIN candidates :
         i < j => \/ DayScore(candidates[i]) > DayScore(candidates[j])
                  \/ /\ DayScore(candidates[i]) = DayScore(candidates[j])
                     /\ candidates[i] < candidates[j]
    /\ \A p \in Processed : \A c \in Range(candidates) :
         \/ DayScore(p) > DayScore(c)
         \/ DayScore(p) = DayScore(c) /\ p < c

\* Two candidates of equal score wait in input order after a candidate with
\* a higher score, who came later in the input, was processed.
ProcessedBestFirstWitness ==
  /\ day = "troops" /\ pc = "loop" /\ Len(candidates) >= 2
  /\ DayScore(candidates[1]) = DayScore(candidates[2])
  /\ \E p \in Processed : p > candidates[2] /\ DayScore(p) > DayScore(candidates[1])

\* One iteration of apply_move_chain, for any move.  A move whose from_slot
\* holds another player changes neither the schedule nor the used-slot set
\* and is reported; any other move is applied or finds its from_slot empty;
\* in each case the loop goes on with the moves that remain.
AnyMoveStep ==
  (pc = "apply" /\ move_chain # <<>>) =>
    LET mv == move_chain[Len(move_chain)]
    IN /\ pc' = "apply"
       /\ move_chain' = SubSeq(move_chain, 1, Len(move_chain) - 1)
       /\ IF mv.from_slot \notin DOMAIN schedule
          THEN schedule' = schedule /\ used_slots' = used_slots /\ warnings' = warnings
          ELSE IF schedule[mv.from_slot].player_id # mv.player_id
          THEN /\ schedule' = schedule /\ used_slots' = used_slots
               /\ warnings' = Append(warnings, mv.from_slot)
          ELSE /\ schedule' = MapInsert(MapRemove(schedule, mv.from_slot), mv.to_slot,
                                [schedule[mv.from_slot] EXCEPT !.slot = mv.to_slot])
               /\ used_slots' = (used_slots \ {mv.from_slot}) \cup {mv.to_slot}
               /\ warnings' = warnings

\* C22: apply_move_chain skips a move whose from_slot is occupied by a
\* player other than the move's player: the schedule and the used-slot set
\* after the move are those before it, a diagnostic is emitted, and the
\* moves that remain are applied as they would be without the skip.
MismatchSkipped == [][AnyMoveStep]_vars

\* The last move of a chain was skipped, the schedule being as it was, and
\* the move that remains is one that apply_move_chain will apply.
MismatchSkippedWitness ==
  /\ pc = "apply" /\ Len(move_chain) = 1 /\ Len(warnings) = 1
  /\ schedule = SearchedSchedule /\ used_slots = SearchedUsed
  /\ move_chain[1].from_slot \in DOMAIN schedule
  /\ schedule[move_chain[1].from_slot].player_id = move_chain[1].player_id
  /\ move_chain[1].to_slot \notin used_slots

\* C23: two concurrent append requests for the same key are serialized, so
\* no appointment stored by one request is lost or replaced by the other
\* request's write: whenever the stored schedule is written, every
\* appointment it held is still held, by the same player in the same slot.
StoredAppointments ==
  IF schedules = <<>> THEN EmptyMap ELSE schedules[1].troops_schedule.appointments

AppendKeepsStoredStep ==
  \A s \in DOMAIN StoredAppointments :
     /\ s \in DOMAIN StoredAppointments'
     /\ StoredAppointments'[s] = StoredAppointments[s]

AppendsSerialized == [][AppendKeepsStoredStep]_vars

\* C24: the popularity computed for a day is, for every slot, the number of
\* the scheduler's candidates (entries that want the day and have a
\* non-empty availability list) that list the slot; it is the same for
\* every order of the entries; a slot nobody lists has popularity 0.
Pool ==
  {r \in DOMAIN entries : \A s \in DOMAIN forced : entries[r].player_id # forced[s].player_id}

Listing(s) ==
  {r \in Pool : /\ wants_filter(day, entries[r])
                /\ get_available_slots(day, entries[r]) # <<>>
                /\ s \in Range(get_available_slots(day, entries[r]))}

RankingOf(s) == IF s \in DOMAIN slot_rankings THEN slot_rankings[s] ELSE 0

PopularityCountsListers ==
  (day \in Days /\ pc \in {"loop", "apply"}) =>
     /\ \A s \in 1..MaxSlot : RankingOf(s) = Cardinality(Listing(s))
     /\ \A o \in Orders(Pool) :
          Rankings(day, entries, GenericCandidates(day, entries, o)) = slot_rankings

\* A slot two candidates list, a slot nobody lists, and an entry that lists
\* a slot without being a candidate.
PopularityCountsListersWitness ==
  /\ day \in Days /\ pc = "loop"
  /\ \E s \in 1..MaxSlot : RankingOf(s) >= 2
  /\ \E s \in 1..MaxSlot : RankingOf(s) = 0
  /\ \E r \in Pool : ~wants_filter(day, entries[r]) /\ get_available_slots(day, entries[r]) # <<>>

\* C25: every scheduler call terminates: each step of a run lowers a
\* natural-valued measure, each candidate is processed exactly once (the
\* loop takes the head of a duplicate-free candidate list and nothing else
\* changes the list after the set-up), and every find_move_chain call a
\* scheduler can make recurses to depth at most 5.
DayRank ==
  CASE day = "construction" -> 3
    [] day = "research" -> 2
    [] day = "troops" -> 1
    [] OTHER -> 0

PhaseBound == (Len(entries) + 1) * (MaxDepth + 2) + 1

Phase ==
  CASE pc \in {"start", "search"} -> PhaseBound - 1
    [] pc = "loop" -> Len(candidates) * (MaxDepth + 2)
    [] pc = "apply" -> Len(candidates) * (MaxDepth + 2) + Len(move_chain) + 1
    [] OTHER -> 0

Measure == DayRank * PhaseBound + Phase

ProcessedOnceStep ==
  (pc # "start" /\ candidates' # candidates) =>
     /\ pc = "loop" /\ candidates # <<>>
     /\ candidates' = Tail(candidates)

RootDepths ==
  {RecursionDepth(schedule[s].player_id, s,
                  get_available_slots(day, entries[entry_map[schedule[s].player_id]]),
                  schedule, used_slots, Deref(entries, entry_map), day, 1, MaxDepth,
                  {schedule[s].player_id}, locked_slots) :
     s \in {t \in DOMAIN schedule : schedule[t].player_id \in DOMAIN entry_map}}

DepthBounded ==
  /\ Measure \in Nat
  /\ \A i, j \in DOMAIN candidates : candidates[i] = candidates[j] => i = j
  /\ pc \in {"loop", "search"} => \A d \in RootDepths : d <= MaxDepth

SchedulersTerminate ==
  []DepthBounded /\ [][Measure' < Measure /\ ProcessedOnceStep]_vars

\* A troops run that has returned with every entry processed: some seated,
\* some left unassigned.
SchedulersTerminateWitness ==
  /\ day = "done" /\ "troops" \in DOMAIN result
  /\ result["troops"].appointments # EmptyMap /\ result["troops"].unassigned # <<>>
  /\ Cardinality(DOMAIN result["troops"].appointments) + Len(result["troops"].unassigned)
       = Len(entries)
  /\ candidates = <<>>

\* C26: calculate_time_slots numbers the slots consecutively from 1; slot 1
\* is the start time, slot 2 the start plus 15 minutes, every later slot 30
\* minutes after the one before (modulo 24 hours); no slot after the first
\* lies at or after the end time measured from the start, also when the end
\* is earlier on the clock than the start; with no end time the end is the
\* start plus 24 hours and exactly 49 slots are returned.
Minutes(t) == t[1] * 60 + t[2]

SlotOffset(k) == IF k = 1 THEN 0 ELSE 15 + (k - 2) * 30

EndOffset ==
  IF end_time = <<>> \/ Minutes(end_time[1]) = Minutes(start_time) THEN 24 * 60
  ELSE (Minutes(end_time[1]) - Minutes(start_time)) % (24 * 60)

TimeSlotsStated ==
  pc = "slots" =>
    /\ time_slots # <<>>
    /\ \A k \in DOMAIN time_slots :
         /\ time_slots[k][1] = k
         /\ Minutes(time_slots[k][2]) = (Minutes(start_time) + SlotOffset(k)) % (24 * 60)
         /\ k > 1 => SlotOffset(k) < EndOffset
    /\ end_time = <<>> => Len(time_slots) = 49

\* C27: find_move_chain is complete within its bound: the search of a
\* scheduler (depth 1, max_depth 5, visited = {root occupant}) fails only
\* when no sequence of at most 5 displacements exists in which distinct
\* players each move into a slot of their own availability list, none
\* leaves a locked slot, the first is the root occupant, each next one is
\* the occupant of the slot the one before moves into, and the last moves
\* into a slot outside the used-slot set.
RECURSIVE Displaceable(_, _, _)
Displaceable(s, seen, n) ==
  /\ n >= 1
  /\ s \notin locked_slots
  /\ \E t \in Range(get_available_slots(day, entries[entry_map[schedule[s].player_id]])) \ {s} :
       \/ t \notin used_slots
       \/ /\ t \in DOMAIN schedule
          /\ schedule[t].player_id \notin seen
          /\ Displaceable(t, seen \cup {schedule[t].player_id}, n - 1)

CompleteWithinBound ==
  pc = "failed" =>
    ~Displaceable(requested_slot, {schedule[requested_slot].player_id}, MaxDepth)

\* A search that failed where a sequence of 6 displacements exists.
CompleteWithinBoundWitness ==
  /\ pc = "failed"
  /\ Displaceable(requested_slot, {schedule[requested_slot].player_id}, MaxDepth + 1)

\* C28: from one processed candidate to the next the used-slot set only
\* grows: a free assignment adds exactly the assigned slot, a failure adds
\* nothing, a steal adds exactly the free slot its chain ends in; the set is
\* always the pre-locked slots together with the occupied ones; and in a
\* returned DaySchedule every slot an unassigned candidate lists is occupied
\* or pre-locked.
UsedAfterSteal ==
  AppliedChain(move_chain, schedule, used_slots).used_slots \cup {requested_slot}

UsedIsLockedOrOccupied ==
  (day \in Days /\ pc \in {"loop", "apply"}) =>
     used_slots = pre_locked[day] \cup DOMAIN schedule \cup DOMAIN forced

UnassignedHaveNoFreeSlot ==
  \A d \in DOMAIN result :
     \A i \in DOMAIN result[d].unassigned :
        \A r \in DOMAIN entries :
           entries[r].player_id = result[d].unassigned[i] =>
              Range(get_available_slots(d, entries[r]))
                 \subseteq DOMAIN result[d].appointments \cup pre_locked[d]

UsedGrowsStep ==
  /\ (pc = "loop" /\ pc' = "loop" /\ day' = day) =>
        IF unassigned' # unassigned THEN used_slots' = used_slots
        ELSE \E s \in DOMAIN schedule' \ used_slots :
                used_slots' = used_slots \cup {s} /\ DOMAIN schedule' = DOMAIN schedule \cup {s}
  /\ (pc = "loop" /\ pc' = "apply") =>
        /\ used_slots' = used_slots
        /\ move_chain'[Len(move_chain')].to_slot \notin used_slots
        /\ UsedAfterSteal' = used_slots \cup {move_chain'[Len(move_chain')].to_slot}
  /\ (pc = "apply" /\ pc' = "apply") => UsedAfterSteal' = UsedAfterSteal
  /\ (pc = "apply" /\ pc' = "loop") => used_slots' = UsedAfterSteal

UsedSlotsGrow ==
  [](UsedIsLockedOrOccupied /\ UnassignedHaveNoFreeSlot) /\ [][UsedGrowsStep]_vars

\* A returned schedule with an unassigned candidate who lists a pre-locked
\* slot and an occupied one.
UsedSlotsGrowWitness ==
  /\ day = "done" /\ "troops" \in DOMAIN result
  /\ result["troops"].unassigned # <<>>
  /\ warnings = <<>> /\ pre_locked["troops"] # {}
  /\ \E r \in DOMAIN entries :
        /\ entries[r].player_id \in Range(result["troops"].unassigned)
        /\ Range(get_available_slots("troops", entries[r])) \cap pre_locked["troops"] # {}
        /\ Range(get_available_slots("troops", entries[r]))
             \cap DOMAIN result["troops"].appointments # {}

\* C29: every appointment, in the working schedule of every state of a
\* run, in research's forced seat and in every returned DaySchedule, is
\* stored under its own slot number and puts the player in a slot of that
\* player's availability list for the day.
InOwnSlot(appts, d) ==
  \A s \in DOMAIN appts :
     /\ appts[s].slot = s
     /\ \E r \in DOMAIN entries :
           /\ entries[r].player_id = appts[s].player_id
           /\ s \in Range(get_available_slots(d, entries[r]))

AppointmentsInOwnSlots ==
  /\ (day \in Days /\ pc \in {"loop", "apply"}) => InOwnSlot(schedule, day)
  /\ InOwnSlot(forced, "research")
  /\ \A d \in DOMAIN result : InOwnSlot(result[d].appointments, d)

\* A returned research schedule with the forced seat and a generic
\* appointment, after a construction run with the initial assignment.
AppointmentsInOwnSlotsWitness ==
  /\ "research" \in DOMAIN result
  /\ forced # EmptyMap
  /\ Cardinality(DOMAIN result["research"].appointments) >= 2
  /\ Cardinality(DOMAIN result["construction"].appointments) >= 2

\* C30: a candidate who holds an appointment holds exactly one in every
\* later state of the run and in the returned DaySchedule: no step of the
\* loop or of a chain removes a holder, the number of appointments never
\* decreases, and nobody who holds an appointment is in the unassigned list.
Holders(appts) == {appts[s].player_id : s \in DOMAIN appts}

HoldsOnce(appts, pid) == Cardinality({s \in DOMAIN appts : appts[s].player_id = pid}) = 1

InRun == day \in Days /\ pc \in {"loop", "apply"}

KeepsAppointmentStep ==
  /\ (InRun /\ InRun' /\ day' = day) =>
        /\ \A pid \in Holders(schedule) : HoldsOnce(schedule', pid)
        /\ Cardinality(DOMAIN schedule') >= Cardinality(DOMAIN schedule)
        /\ forced' = forced
  /\ (InRun /\ day' # day) =>
        /\ \A pid \in Holders(schedule) \cup Holders(forced) :
              /\ HoldsOnce(result'[day].appointments, pid)
              /\ pid \notin Range(result'[day].unassigned)
        /\ Cardinality(DOMAIN result'[day].appointments)
             = Cardinality(DOMAIN schedule) + Cardinality(DOMAIN forced)

HoldersNotUnassigned ==
  InRun => Range(unassigned) \cap (Holders(schedule) \cup Holders(forced)) = {}

AppointmentsKept == []HoldersNotUnassigned /\ [][KeepsAppointmentStep]_vars

\* A chain has been applied for a stealing candidate, and the two players
\* seated before it still hold a slot each.
AppointmentsKeptWitness ==
  /\ InRun /\ pc = "apply" /\ move_chain = <<>> /\ entry # <<>>
  /\ warnings = <<>>
  /\ Cardinality(Holders(schedule)) = 2

====
